---------------------------- MODULE Spec2Model ----------------------------
(***************************************************************************)
(* A model of the temporal drift and trend-labelling engine of Gen-Eezes:  *)
(*   src/temporal_analysis/temporal_analysis_handler.py  (step mode)       *)
(*   src/analyze_real_trends.py                          (whole-span mode) *)
(*                                                                         *)
(* and of the newsletter pipeline that reads its results:                  *)
(*   src/email_pipeline/main_email_pipeline.py                             *)
(*                                                                         *)
(* Five specifications share the variables below.                          *)
(*   Spec        the whole-span pipeline over the snapshot store           *)
(*   SpecCalc    the scalar functions applied to bounded scalar inputs     *)
(*   SpecHandler the handler's timeline functions applied to bounded       *)
(*               timelines                                                 *)
(*   SpecReport  the context and report functions applied to bounded       *)
(*               ordered mappings                                          *)
(*   SpecEmail   the newsletter pipeline over the stored results           *)
(*                                                                         *)
(* Python floats are modelled as exact rationals <<n, d>> with d > 0 in    *)
(* lowest terms; <<0, 0>> stands for a raised ZeroDivisionError.           *)
(***************************************************************************)
EXTENDS Integers, Sequences, FiniteSets, TLC

VARIABLES
    temporal_snapshots_real,   \* db['temporal_snapshots_real']: a set of snapshot documents
    temporal_analysis_real,    \* db['temporal_analysis_real']: stored results, in insertion order
    temporal_snapshots,        \* db['temporal_snapshots']: the generated snapshots
    temporal_analysis,         \* db['temporal_analysis']: stored results, in insertion order
    email_logs,                \* db['email_logs']: delivery records, in insertion order
    outbox,                    \* the messages handed to the Gmail API, in order
    clock,                     \* datetime.now() of the analysis runs; in SpecReport
                               \* whether the function was called a second time
    call,                      \* SpecCalc, SpecHandler: the function that was applied ("none" before)
    arg,                       \* its argument
    ret                        \* its return value

vars == <<temporal_snapshots_real, temporal_analysis_real, temporal_snapshots,
          temporal_analysis, email_logs, outbox, clock, call, arg, ret>>

(***************************************************************************)
(* Bounds of the model.                                                    *)
(***************************************************************************)
MaxVal == 22
MaxSize == 12
MaxMag == 250
MaxLen == 3
MaxSnapshots == 3
MaxRuns == 2

(***************************************************************************)
(* Exact rational arithmetic standing for Python's float arithmetic.       *)
(***************************************************************************)
Abs(i) == IF i < 0 THEN -i ELSE i

RECURSIVE GCD(_, _)
GCD(a, b) == IF b = 0 THEN a ELSE GCD(b, a % b)

ZeroDivisionError == <<0, 0>>

Raised(x) == x[2] = 0

Norm(n, d) ==
    IF d = 0 THEN ZeroDivisionError
    ELSE LET s == IF d < 0 THEN -1 ELSE 1
             g == GCD(Abs(n), Abs(d))
         IN  <<(s * n) \div g, (s * d) \div g>>

Rat(i) == <<i, 1>>

RAdd(x, y) ==
    IF Raised(x) \/ Raised(y) THEN ZeroDivisionError
    ELSE Norm(x[1] * y[2] + y[1] * x[2], x[2] * y[2])

RSub(x, y) ==
    IF Raised(x) \/ Raised(y) THEN ZeroDivisionError
    ELSE Norm(x[1] * y[2] - y[1] * x[2], x[2] * y[2])

RMul(x, y) ==
    IF Raised(x) \/ Raised(y) THEN ZeroDivisionError
    ELSE Norm(x[1] * y[1], x[2] * y[2])

RDiv(x, y) ==
    IF Raised(x) \/ Raised(y) THEN ZeroDivisionError
    ELSE Norm(x[1] * y[2], x[2] * y[1])

RLt(x, y) == x[1] * y[2] < y[1] * x[2]

RLe(x, y) == x[1] * y[2] <= y[1] * x[2]

RAbs(x) == <<Abs(x[1]), x[2]>>

RMin(x, y) == IF RLt(y, x) THEN y ELSE x

RMax(x, y) == IF RLt(x, y) THEN y ELSE x

(***************************************************************************)
(* TemporalAnalysisHandler: the scalar helpers.                            *)
(***************************************************************************)
CalculatePercentChangeNoGuard(old_value, new_value) ==
    RMul(RDiv(RSub(new_value, old_value), old_value), Rat(100))

\* _calculate_percent_change(old_value, new_value)
CalculatePercentChange(old_value, new_value) ==
    IF old_value = Rat(0)
    THEN IF RLt(Rat(0), new_value) THEN Rat(100) ELSE Rat(0)
    ELSE RMul(RDiv(RSub(new_value, old_value), old_value), Rat(100))

CalculateDriftMagnitudeUncapped(size_change, std_dev_change) ==
    LET normalized_size_drift ==
            RMul(RDiv(RAbs(size_change), RMax(Rat(1), RAdd(size_change, Rat(10)))), Rat(50))
        normalized_std_drift ==
            RMul(RDiv(RAbs(std_dev_change), Rat(3)), Rat(50))
    IN  RAdd(normalized_size_drift, normalized_std_drift)

\* _calculate_drift_magnitude(size_change, std_dev_change)
CalculateDriftMagnitude(size_change, std_dev_change) ==
    LET normalized_size_drift ==
            RMul(RDiv(RAbs(size_change), RMax(Rat(1), RAdd(size_change, Rat(10)))), Rat(50))
        normalized_std_drift ==
            RMul(RDiv(RAbs(std_dev_change), Rat(3)), Rat(50))
    IN  RMin(Rat(100), RAdd(normalized_size_drift, normalized_std_drift))

ClassifyDriftSeverityInclusive(magnitude) ==
    IF RLe(magnitude, Rat(10)) THEN "MINIMAL"
    ELSE IF RLe(magnitude, Rat(25)) THEN "LOW"
    ELSE IF RLe(magnitude, Rat(50)) THEN "MEDIUM"
    ELSE IF RLe(magnitude, Rat(75)) THEN "HIGH"
    ELSE "EXTREME"

\* _classify_drift_severity(magnitude)
ClassifyDriftSeverity(magnitude) ==
    IF RLt(magnitude, Rat(10)) THEN "MINIMAL"
    ELSE IF RLt(magnitude, Rat(25)) THEN "LOW"
    ELSE IF RLt(magnitude, Rat(50)) THEN "MEDIUM"
    ELSE IF RLt(magnitude, Rat(75)) THEN "HIGH"
    ELSE "EXTREME"

(***************************************************************************)
(* Python list helpers.                                                    *)
(***************************************************************************)
SortedAsGiven(seq, keys) == seq

\* sorted(seq, key=...): a stable sort, keys[i] being the key of seq[i]
Sorted(seq, keys) ==
    LET rank(i) ==
            1 + Cardinality({j \in 1..Len(seq) :
                                \/ keys[j] < keys[i]
                                \/ keys[j] = keys[i] /\ j < i})
    IN  [r \in 1..Len(seq) |-> seq[CHOOSE i \in 1..Len(seq) : rank(i) = r]]

\* seq[-n:]
LastN(seq, n) ==
    IF Len(seq) <= n THEN seq ELSE SubSeq(seq, Len(seq) - n + 1, Len(seq))

RECURSIVE RSum(_)
\* sum of a sequence of floats
RSum(seq) ==
    IF seq = <<>> THEN Rat(0) ELSE RAdd(seq[1], RSum(Tail(seq)))

\* np.mean
Mean(seq) == RDiv(RSum(seq), Rat(Len(seq)))

Inf == "inf"

\* a / b on a numpy float: inf instead of an exception when b is 0.0
NpDiv(a, b) == IF b = Rat(0) THEN Inf ELSE RDiv(a, b)

(***************************************************************************)
(* TemporalAnalysisHandler: the timeline functions.                        *)
(***************************************************************************)
DetectSimpleTrendMajority(recent_values) ==
    IF Len(recent_values) < 2 THEN "STABLE"
    ELSE LET n == Len(recent_values)
             ups == Cardinality({i \in 2..n : recent_values[i] > recent_values[i - 1]})
             downs == Cardinality({i \in 2..n : recent_values[i] < recent_values[i - 1]})
         IN  IF ups > downs THEN "RISING"
             ELSE IF downs > ups THEN "FALLING"
             ELSE "STABLE"

\* _detect_simple_trend(recent_values)
DetectSimpleTrend(recent_values) ==
    IF Len(recent_values) < 2 THEN "STABLE"
    ELSE LET n == Len(recent_values)
             ups == Cardinality({i \in 2..n : recent_values[i] > recent_values[i - 1]})
             downs == Cardinality({i \in 2..n : recent_values[i] < recent_values[i - 1]})
         IN  IF ups > downs /\ ups >= n - 1 THEN "RISING"
             ELSE IF downs > ups /\ downs >= n - 1 THEN "FALLING"
             ELSE "STABLE"

\* the body of the loop of analyze_keyword_shifts for one analysed keyword
ShiftData(keyword, timeline) ==
    LET sorted_timeline == Sorted(timeline, [i \in 1..Len(timeline) |-> timeline[i][1]])
        frequencies == [i \in 1..Len(timeline) |-> sorted_timeline[i][2]]
        dates == [i \in 1..Len(timeline) |-> sorted_timeline[i][1]]
        n == Len(frequencies)
        previous == IF n > 1 THEN frequencies[n - 1] ELSE 0
    IN  [keyword            |-> keyword,
         timeline           |-> sorted_timeline,
         current_frequency  |-> frequencies[n],
         previous_frequency |-> previous,
         change             |-> frequencies[n] - previous,
         percent_change     |->
             CalculatePercentChange(Rat(IF n > 1 THEN frequencies[n - 1] ELSE 1),
                                    Rat(frequencies[n])),
         trend              |-> DetectSimpleTrend(LastN(frequencies, 3)),
         history            |-> frequencies,
         dates              |-> dates]

AnalyzeKeywordShiftsNoSkip(keyword_timeline) ==
    [keyword \in {k \in DOMAIN keyword_timeline : Len(keyword_timeline[k]) >= 1} |->
        ShiftData(keyword, keyword_timeline[keyword])]

\* analyze_keyword_shifts(keyword_timeline)
AnalyzeKeywordShifts(keyword_timeline) ==
    [keyword \in {k \in DOMAIN keyword_timeline : ~(Len(keyword_timeline[k]) < 2)} |->
        ShiftData(keyword, keyword_timeline[keyword])]

\* the body of the loop of detect_cluster_drift for one analysed cluster
DriftData(cluster_id, timeline) ==
    LET sorted_timeline == Sorted(timeline, [i \in 1..Len(timeline) |-> timeline[i].date])
        sizes == [i \in 1..Len(timeline) |-> sorted_timeline[i].size]
        std_devs == [i \in 1..Len(timeline) |-> sorted_timeline[i].std_dev]
        dates == [i \in 1..Len(timeline) |-> sorted_timeline[i].date]
        n == Len(sizes)
        size_change == sizes[n] - sizes[n - 1]
        size_percent_change == CalculatePercentChange(Rat(sizes[n - 1]), Rat(sizes[n]))
        avg_std_dev == Mean(std_devs)
        std_dev_change == RSub(std_devs[n], std_devs[n - 1])
        drift_magnitude == CalculateDriftMagnitude(Rat(size_change), std_dev_change)
    IN  [cluster_id          |-> cluster_id,
         timeline            |-> sorted_timeline,
         size_history        |-> sizes,
         std_dev_history     |-> std_devs,
         dates               |-> dates,
         current_size        |-> sizes[n],
         previous_size       |-> sizes[n - 1],
         size_change         |-> size_change,
         size_percent_change |-> size_percent_change,
         avg_cohesion        |-> NpDiv(Rat(1), avg_std_dev),
         std_dev_change      |-> std_dev_change,
         drift_magnitude     |-> drift_magnitude,
         drift_severity      |-> ClassifyDriftSeverity(drift_magnitude)]

\* detect_cluster_drift(cluster_timeline)
DetectClusterDrift(cluster_timeline) ==
    [cluster_id \in {c \in DOMAIN cluster_timeline : ~(Len(cluster_timeline[c]) < 2)} |->
        DriftData(cluster_id, cluster_timeline[cluster_id])]

\* LinearRegression().fit(X, y) for one regressor: ordinary least squares
LinearRegressionFit(X, y) ==
    LET n == Len(X)
        x_mean == Mean(X)
        y_mean == Mean(y)
        sxy == RSum([i \in 1..n |-> RMul(RSub(X[i], x_mean), RSub(y[i], y_mean))])
        sxx == RSum([i \in 1..n |-> RMul(RSub(X[i], x_mean), RSub(X[i], x_mean))])
        coef == RDiv(sxy, sxx)
    IN  [coef |-> coef, intercept |-> RSub(y_mean, RMul(coef, x_mean))]

\* model.predict([[x]])
Predict(model, x) == RAdd(model.intercept, RMul(model.coef, x))

\* model.score(X, y): the coefficient of determination as r2_score computes it,
\* 1 - numerator / denominator when both are nonzero, 0.0 for a nonzero numerator
\* over a zero denominator, and 1.0 whenever the numerator is zero
R2Score(y_true, y_pred) ==
    LET n == Len(y_true)
        y_mean == Mean(y_true)
        numerator == RSum([i \in 1..n |->
                        RMul(RSub(y_true[i], y_pred[i]), RSub(y_true[i], y_pred[i]))])
        denominator == RSum([i \in 1..n |->
                        RMul(RSub(y_true[i], y_mean), RSub(y_true[i], y_mean))])
    IN  IF denominator # Rat(0) /\ numerator # Rat(0)
        THEN RSub(Rat(1), RDiv(numerator, denominator))
        ELSE IF numerator # Rat(0) THEN Rat(0)
        ELSE Rat(1)

\* model_time_series with one of its choices changed: the regressor (the timestamps
\* instead of the index), the floor of the mean (none instead of 1), the quality
\* thresholds (inclusive instead of strict)
ModelTimeSeriesVariant(metric_timeline, on_dates, floor_mean, strict_quality) ==
    IF Len(metric_timeline) < 2
    THEN [error |-> "Insufficient data for time series modeling"]
    ELSE
    LET n == Len(metric_timeline)
        sorted_timeline ==
            Sorted(metric_timeline, [i \in 1..n |-> metric_timeline[i][1]])
        dates == [i \in 1..n |-> IF on_dates THEN Rat(sorted_timeline[i][1]) ELSE Rat(i - 1)]
        values == [i \in 1..n |-> Rat(sorted_timeline[i][2])]
        model == LinearRegressionFit(dates, values)
        slope == model.coef
        intercept == model.intercept
        predictions == [i \in 1..n |-> Predict(model, dates[i])]
        r_squared == R2Score(values, predictions)
        next_index == n
        next_prediction == Predict(model, Rat(next_index))
        trend_direction ==
            IF RLt(Rat(0), slope) THEN "RISING"
            ELSE IF RLt(slope, Rat(0)) THEN "FALLING"
            ELSE "STABLE"
        trend_strength ==
            IF floor_mean
            THEN RMin(Rat(1), RDiv(RAbs(slope), RMax(Rat(1), Mean(values))))
            ELSE IF Mean(values) = Rat(0) THEN Rat(1)
            ELSE RMin(Rat(1), RDiv(RAbs(slope), Mean(values)))
        residuals == [i \in 1..n |-> RSub(values[i], predictions[i])]
        mse == Mean([i \in 1..n |-> RMul(residuals[i], residuals[i])])
    IN  [timeline        |-> sorted_timeline,
         values          |-> [i \in 1..n |-> sorted_timeline[i][2]],
         slope           |-> slope,
         intercept       |-> intercept,
         r_squared       |-> r_squared,
         trend_direction |-> trend_direction,
         trend_strength  |-> trend_strength,
         next_prediction |-> next_prediction,
         rmse            |-> [sqrt |-> mse],
         model_quality   |->
             IF strict_quality
             THEN IF RLt(Norm(7, 10), r_squared) THEN "STRONG"
                  ELSE IF RLt(Norm(4, 10), r_squared) THEN "MODERATE"
                  ELSE "WEAK"
             ELSE IF RLe(Norm(7, 10), r_squared) THEN "STRONG"
                  ELSE IF RLe(Norm(4, 10), r_squared) THEN "MODERATE"
                  ELSE "WEAK"]

ModelTimeSeriesOnDates(metric_timeline) ==
    ModelTimeSeriesVariant(metric_timeline, TRUE, TRUE, TRUE)

ModelTimeSeriesNoFloor(metric_timeline) ==
    ModelTimeSeriesVariant(metric_timeline, FALSE, FALSE, TRUE)

ModelTimeSeriesInclusive(metric_timeline) ==
    ModelTimeSeriesVariant(metric_timeline, FALSE, TRUE, FALSE)

\* model_time_series(metric_timeline)
ModelTimeSeries(metric_timeline) ==
    IF Len(metric_timeline) < 2
    THEN [error |-> "Insufficient data for time series modeling"]
    ELSE
    LET n == Len(metric_timeline)
        sorted_timeline ==
            Sorted(metric_timeline, [i \in 1..n |-> metric_timeline[i][1]])
        dates == [i \in 1..n |-> Rat(i - 1)]
        values == [i \in 1..n |-> Rat(sorted_timeline[i][2])]
        model == LinearRegressionFit(dates, values)
        slope == model.coef
        intercept == model.intercept
        predictions == [i \in 1..n |-> Predict(model, dates[i])]
        r_squared == R2Score(values, predictions)
        next_index == n
        next_prediction == Predict(model, Rat(next_index))
        trend_direction ==
            IF RLt(Rat(0), slope) THEN "RISING"
            ELSE IF RLt(slope, Rat(0)) THEN "FALLING"
            ELSE "STABLE"
        trend_strength ==
            RMin(Rat(1), RDiv(RAbs(slope), RMax(Rat(1), Mean(values))))
        residuals == [i \in 1..n |-> RSub(values[i], predictions[i])]
        mse == Mean([i \in 1..n |-> RMul(residuals[i], residuals[i])])
    IN  [timeline        |-> sorted_timeline,
         values          |-> [i \in 1..n |-> sorted_timeline[i][2]],
         slope           |-> slope,
         intercept       |-> intercept,
         r_squared       |-> r_squared,
         trend_direction |-> trend_direction,
         trend_strength  |-> trend_strength,
         next_prediction |-> next_prediction,
         rmse            |-> [sqrt |-> mse],
         model_quality   |->
             IF RLt(Norm(7, 10), r_squared) THEN "STRONG"
             ELSE IF RLt(Norm(4, 10), r_squared) THEN "MODERATE"
             ELSE "WEAK"]

(***************************************************************************)
(* TemporalAnalysisPipeline: the time series models of a run.              *)
(***************************************************************************)
\* f"keyword_{keyword}" and f"cluster_size_{cluster_id}" on the names of the model
MetricName(prefix, name) ==
    CASE prefix = "keyword_" /\ name = "llm" -> "keyword_llm"
      [] prefix = "keyword_" /\ name = "rag" -> "keyword_rag"
      [] prefix = "cluster_size_" /\ name = "devops" -> "cluster_size_devops"
      [] prefix = "cluster_size_" /\ name = "ai_llm" -> "cluster_size_ai_llm"

\* [(cluster['date'], cluster['size']) for cluster in timeline]
SizeTimeline(timeline) ==
    [i \in 1..Len(timeline) |-> <<timeline[i].date, timeline[i].size>>]

BuildTimeSeriesModelsSkipShort(snapshots_data) ==
    LET keywords == {k \in DOMAIN snapshots_data.keywords :
                        Len(snapshots_data.keywords[k]) >= 2}
        clusters == {c \in DOMAIN snapshots_data.clusters :
                        Len(snapshots_data.clusters[c]) >= 2}
        names == {MetricName("keyword_", k) : k \in keywords}
                     \cup {MetricName("cluster_size_", c) : c \in clusters}
    IN  [metric \in names |->
            IF \E k \in keywords : metric = MetricName("keyword_", k)
            THEN ModelTimeSeries(snapshots_data.keywords[
                     CHOOSE k \in keywords : metric = MetricName("keyword_", k)])
            ELSE ModelTimeSeries(SizeTimeline(snapshots_data.clusters[
                     CHOOSE c \in clusters : metric = MetricName("cluster_size_", c)]))]

\* _build_time_series_models(snapshots_data)
BuildTimeSeriesModels(snapshots_data) ==
    LET keywords == DOMAIN snapshots_data.keywords
        clusters == DOMAIN snapshots_data.clusters
        names == {MetricName("keyword_", k) : k \in keywords}
                     \cup {MetricName("cluster_size_", c) : c \in clusters}
    IN  [metric \in names |->
            IF \E k \in keywords : metric = MetricName("keyword_", k)
            THEN ModelTimeSeries(snapshots_data.keywords[
                     CHOOSE k \in keywords : metric = MetricName("keyword_", k)])
            ELSE ModelTimeSeries(SizeTimeline(snapshots_data.clusters[
                     CHOOSE c \in clusters : metric = MetricName("cluster_size_", c)]))]

(***************************************************************************)
(* RealTemporalAnalysisPipeline.analyze_real_data: the inline whole-span   *)
(* computations.                                                           *)
(***************************************************************************)
KeywordShiftInclusive(first_freq, last_freq) ==
    LET percent_change ==
            IF RLt(Rat(0), first_freq)
            THEN RMul(RDiv(RSub(last_freq, first_freq), first_freq), Rat(100))
            ELSE IF RLt(Rat(0), last_freq) THEN Rat(100) ELSE Rat(0)
    IN  [start_frequency |-> first_freq,
         end_frequency   |-> last_freq,
         percent_change  |-> percent_change,
         trend_direction |->
             IF RLe(Rat(5), percent_change) THEN "RISING"
             ELSE IF RLe(percent_change, Rat(-5)) THEN "FALLING"
             ELSE "STABLE"]

\* the body of the keyword loop for one keyword with first and last frequency
KeywordShift(first_freq, last_freq) ==
    LET percent_change ==
            IF RLt(Rat(0), first_freq)
            THEN RMul(RDiv(RSub(last_freq, first_freq), first_freq), Rat(100))
            ELSE IF RLt(Rat(0), last_freq) THEN Rat(100) ELSE Rat(0)
    IN  [start_frequency |-> first_freq,
         end_frequency   |-> last_freq,
         percent_change  |-> percent_change,
         trend_direction |->
             IF RLt(Rat(5), percent_change) THEN "RISING"
             ELSE IF RLt(percent_change, Rat(-5)) THEN "FALLING"
             ELSE "STABLE"]

\* the inline severity ladder of the cluster loop
InlineDriftSeverity(drift_magnitude) ==
    IF RLt(drift_magnitude, Rat(10)) THEN "MINIMAL"
    ELSE IF RLt(drift_magnitude, Rat(25)) THEN "LOW"
    ELSE IF RLt(drift_magnitude, Rat(50)) THEN "MEDIUM"
    ELSE IF RLt(drift_magnitude, Rat(75)) THEN "HIGH"
    ELSE "EXTREME"

ClusterStatCapped(sizes, std_devs) ==
    LET size_first == sizes[1]
        size_last  == sizes[Len(sizes)]
        std_first  == std_devs[1]
        std_last   == std_devs[Len(std_devs)]
        size_change ==
            IF RLt(Rat(0), size_first)
            THEN RMul(RDiv(RSub(size_last, size_first), size_first), Rat(100))
            ELSE Rat(0)
        std_dev_change ==
            IF RLt(Rat(0), std_first)
            THEN RMul(RDiv(RSub(std_last, std_first), std_first), Rat(100))
            ELSE Rat(0)
        drift_magnitude == RMin(Rat(100), RAdd(RAbs(size_change), RAbs(std_dev_change)))
    IN  [size_change_percent    |-> size_change,
         std_dev_change_percent |-> std_dev_change,
         drift_magnitude        |-> drift_magnitude,
         drift_severity         |-> InlineDriftSeverity(drift_magnitude)]

\* the body of the cluster loop for one cluster, from its sizes and std_devs
ClusterStat(sizes, std_devs) ==
    LET size_first == sizes[1]
        size_last  == sizes[Len(sizes)]
        std_first  == std_devs[1]
        std_last   == std_devs[Len(std_devs)]
        size_change ==
            IF RLt(Rat(0), size_first)
            THEN RMul(RDiv(RSub(size_last, size_first), size_first), Rat(100))
            ELSE Rat(0)
        std_dev_change ==
            IF RLt(Rat(0), std_first)
            THEN RMul(RDiv(RSub(std_last, std_first), std_first), Rat(100))
            ELSE Rat(0)
        drift_magnitude == RAdd(RAbs(size_change), RAbs(std_dev_change))
    IN  [size_change_percent    |-> size_change,
         std_dev_change_percent |-> std_dev_change,
         drift_magnitude        |-> drift_magnitude,
         drift_severity         |-> InlineDriftSeverity(drift_magnitude)]


(***************************************************************************)
(* RealTemporalAnalysisPipeline: loading the snapshots and the two loops.  *)
(***************************************************************************)
\* dict.get(key, default)
DictGet(d, key, default) == IF key \in DOMAIN d THEN d[key] ELSE default

FindSortedDescending(collection) ==
    [r \in 1..Cardinality(collection) |->
        CHOOSE doc \in collection :
            Cardinality({e \in collection : e.timestamp > doc.timestamp}) = r - 1]

\* list(collection.find().sort('timestamp', 1)), the timestamps being distinct
FindSorted(collection) ==
    [r \in 1..Cardinality(collection) |->
        CHOOSE doc \in collection :
            Cardinality({e \in collection : e.timestamp < doc.timestamp}) = r - 1]

\* the sub-sequence of the elements of seq that satisfy Keep, in order
RECURSIVE SelectIdx(_, _)
SelectIdx(seq, keep) ==
    IF seq = <<>> THEN <<>>
    ELSE IF Len(seq) \in keep
         THEN Append(SelectIdx(SubSeq(seq, 1, Len(seq) - 1), keep), seq[Len(seq)])
         ELSE SelectIdx(SubSeq(seq, 1, Len(seq) - 1), keep)

None == [none |-> TRUE]

\* load_temporal_data(): None for an empty store, else the timelines, each in the
\* order of the sorted snapshots
LoadTemporalData(collection) ==
    LET snapshots == FindSorted(collection)
        n == Len(snapshots)
        evolution(i) == DictGet(snapshots[i], "keyword_evolution", <<>>)
        clusters(i) == DictGet(snapshots[i], "clusters", <<>>)
        keywords == UNION {DOMAIN evolution(i) : i \in 1..n}
        cluster_names == UNION {DOMAIN clusters(i) : i \in 1..n}
    IN  IF n = 0 THEN None
        ELSE [keyword_timeline |->
                 [keyword \in keywords |->
                     LET with == SelectIdx(snapshots,
                                     {i \in 1..n : keyword \in DOMAIN evolution(i)})
                     IN  [j \in 1..Len(with) |->
                            [timestamp |-> with[j].timestamp,
                             frequency |->
                                 DictGet(with[j].keyword_evolution[keyword], "frequency", 0)]]],
              cluster_timeline |->
                 [cluster_name \in cluster_names |->
                     LET with == SelectIdx(snapshots,
                                     {i \in 1..n : cluster_name \in DOMAIN clusters(i)})
                     IN  [j \in 1..Len(with) |->
                            [timestamp |-> with[j].timestamp,
                             size      |-> DictGet(with[j].clusters[cluster_name], "size", 0),
                             std_dev   |->
                                 DictGet(with[j].clusters[cluster_name], "std_dev", Rat(0))]]]]

\* the keyword loop of analyze_real_data
KeywordShifts(keyword_timeline) ==
    [keyword \in {k \in DOMAIN keyword_timeline : Len(keyword_timeline[k]) >= 2} |->
        LET timeline == keyword_timeline[keyword]
        IN  KeywordShift(Rat(timeline[1].frequency), Rat(timeline[Len(timeline)].frequency))]

\* the cluster loop of analyze_real_data
ClusterStats(cluster_timeline) ==
    [cluster_name \in {c \in DOMAIN cluster_timeline : Len(cluster_timeline[c]) >= 2} |->
        LET timeline == cluster_timeline[cluster_name]
        IN  ClusterStat([i \in 1..Len(timeline) |-> Rat(timeline[i].size)],
                        [i \in 1..Len(timeline) |-> timeline[i].std_dev])]

\* analyze_real_data() up to the stored document: None when it returns early
AnalysisResult(collection, now) ==
    LET loaded == LoadTemporalData(collection)
    IN  IF loaded = None THEN None
        ELSE [timestamp         |-> now,
              analysis_type     |-> "REAL_DATA_TEMPORAL_ANALYSIS",
              weeks_analyzed    |-> 8,
              keywords_analyzed |-> Cardinality(DOMAIN loaded.keyword_timeline),
              clusters_analyzed |-> Cardinality(DOMAIN loaded.cluster_timeline),
              keyword_shifts    |-> KeywordShifts(loaded.keyword_timeline),
              cluster_stats     |-> ClusterStats(loaded.cluster_timeline)]

(***************************************************************************)
(* Spec: the snapshot store, rebuilt by the aggregator, and the analysis    *)
(* runs that read it.                                                      *)
(***************************************************************************)
EmptyDict == [k \in {} |-> 0]

Freq(n) == [frequency |-> n]

Cluster(size, std_dev) == [size |-> size, std_dev |-> std_dev]

\* what a snapshot document holds besides its timestamp: keywords and clusters
\* present or absent, zero and positive values, a dict without its fields
SnapshotBodySeq ==
    <<[keyword_evolution |-> ("llm" :> Freq(2)) @@ ("rag" :> Freq(0)),
      clusters          |-> ("devops" :> Cluster(12, Norm(143, 100)))],
     [keyword_evolution |-> ("llm" :> Freq(5)),
      clusters          |-> ("devops" :> Cluster(8, Rat(2)))
                                @@ ("ai_llm" :> Cluster(5, Norm(167, 100)))],
     [keyword_evolution |-> ("llm" :> Freq(22)) @@ ("rag" :> Freq(11)),
      clusters          |-> ("devops" :> Cluster(2, Norm(333, 100)))],
     [keyword_evolution |-> ("rag" :> Freq(4)),
      clusters          |-> ("ai_llm" :> EmptyDict)],
     [keyword_evolution |-> EmptyDict,
      clusters          |-> EmptyDict],
     [keyword_evolution |-> ("llm" :> EmptyDict) @@ ("rag" :> Freq(0)),
      clusters          |-> ("devops" :> Cluster(0, Norm(143, 100)))
                                @@ ("ai_llm" :> Cluster(18, Norm(172, 100)))]>>

SnapshotBodies == {SnapshotBodySeq[i] : i \in 1..Len(SnapshotBodySeq)}

Snapshot(timestamp, body) ==
    [timestamp         |-> timestamp,
     keyword_evolution |-> body.keyword_evolution,
     clusters          |-> body.clusters]

CallIdle ==
    /\ call = "none"
    /\ arg = <<>>
    /\ ret = <<>>

Init ==
    /\ temporal_snapshots_real = {}
    /\ temporal_analysis_real = <<>>
    /\ temporal_snapshots = {}
    /\ temporal_analysis = <<>>
    /\ email_logs = <<>>
    /\ outbox = <<>>
    /\ clock = 1
    /\ CallIdle

\* the histories the aggregator can build: history 1 is the growth of llm with a
\* shrinking devops cluster, history 2 the sparse and the empty snapshots
Histories == 1..2

HistoryBody(history, week) ==
    SnapshotBodySeq[(((history - 1) * 3 + week - 1) % Len(SnapshotBodySeq)) + 1]

\* SnapshotAggregator.aggregate_snapshots(): with no collection snapshot nothing is
\* written; otherwise the store is cleared and one temporal snapshot per
\* collection snapshot is inserted
AggregateSnapshots(weeks, history) ==
    /\ IF weeks = 0
       THEN UNCHANGED temporal_snapshots_real
       ELSE temporal_snapshots_real' =
                {Snapshot(week, HistoryBody(history, week)) : week \in 1..weeks}
    /\ UNCHANGED <<temporal_analysis_real, temporal_snapshots, temporal_analysis,
                   email_logs, outbox, clock, call, arg, ret>>

AnalyzeRealDataKeepLatest ==
    /\ Len(temporal_analysis_real) < MaxRuns
    /\ LET analysis_result == AnalysisResult(temporal_snapshots_real, clock)
       IN  IF analysis_result = None
           THEN UNCHANGED <<temporal_analysis_real, clock>>
           ELSE /\ temporal_analysis_real' = <<analysis_result>>
                /\ clock' = clock + 1
    /\ UNCHANGED <<temporal_snapshots_real, temporal_snapshots, temporal_analysis,
                   email_logs, outbox, call, arg, ret>>

\* RealTemporalAnalysisPipeline.analyze_real_data()
AnalyzeRealData ==
    /\ Len(temporal_analysis_real) < MaxRuns
    /\ LET analysis_result == AnalysisResult(temporal_snapshots_real, clock)
       IN  IF analysis_result = None
           THEN UNCHANGED <<temporal_analysis_real, clock>>
           ELSE /\ temporal_analysis_real' = Append(temporal_analysis_real, analysis_result)
                /\ clock' = clock + 1
    /\ UNCHANGED <<temporal_snapshots_real, temporal_snapshots, temporal_analysis,
                   email_logs, outbox, call, arg, ret>>

\* HistoricalDataGenerator(weeks=8)
GeneratorWeeks == 8

\* the ticks of the clock in timedelta(weeks=1): runs are a week apart or not
WeekTicks == 2

\* the historical data of the generator for the keywords llm and rag and the
\* clusters ai_llm and devops: frequencies, sizes and cohesion in hundredths
GeneratorKeywords ==
    ("llm" :> <<2, 3, 5, 7, 10, 14, 18, 22>>) @@ ("rag" :> <<0, 0, 0, 1, 2, 4, 7, 11>>)

GeneratorSizes ==
    ("ai_llm" :> <<5, 6, 8, 10, 12, 14, 16, 18>>)
        @@ ("devops" :> <<12, 11, 10, 8, 6, 4, 3, 2>>)

GeneratorCohesion ==
    ("ai_llm" :> <<60, 65, 70, 68, 65, 62, 60, 58>>)
        @@ ("devops" :> <<70, 68, 65, 62, 60, 50, 40, 30>>)

\* self.start_date + timedelta(weeks=week), week counted from 0
SnapshotDate(start_date, week) == start_date + week * WeekTicks

\* the snapshot document save_snapshots_to_mongodb builds for one week
SnapshotDoc(start_date, week) ==
    [timestamp   |-> SnapshotDate(start_date, week),
     week_number |-> week,
     clusters    |-> [c \in DOMAIN GeneratorSizes |-> [size |-> GeneratorSizes[c][week + 1]]],
     keywords    |-> [k \in DOMAIN GeneratorKeywords |-> GeneratorKeywords[k][week + 1]]]

\* update_one({'timestamp': ...}, {'$set': doc}, upsert=True) for every week
SaveSnapshotsToMongodb(collection, start_date) ==
    LET docs == {SnapshotDoc(start_date, week) : week \in 0..(GeneratorWeeks - 1)}
    IN  {d \in collection : \A new \in docs : new.timestamp # d.timestamp} \cup docs

\* get_all_snapshots(): the keyword and the cluster timelines
GetAllSnapshots(start_date) ==
    [keywords |->
        [k \in DOMAIN GeneratorKeywords |->
            [i \in 1..GeneratorWeeks |->
                <<SnapshotDate(start_date, i - 1), GeneratorKeywords[k][i]>>]],
     clusters |->
        [c \in DOMAIN GeneratorSizes |->
            [i \in 1..GeneratorWeeks |->
                [date    |-> SnapshotDate(start_date, i - 1),
                 size    |-> GeneratorSizes[c][i],
                 std_dev |-> Norm(100, GeneratorCohesion[c][i])]]]]

\* the document of _store_analysis_results: the timestamp, the type and the two
\* summaries (the labels, the report and the insights are further functions of
\* the same snapshots_data)
AnalysisDoc(snapshots_data, now) ==
    LET keyword_shifts == AnalyzeKeywordShifts(snapshots_data.keywords)
        cluster_drifts == DetectClusterDrift(snapshots_data.clusters)
    IN  [timestamp     |-> now,
         analysis_type |-> "weekly_temporal_analysis",
         keyword_shifts_summary |->
             [k \in DOMAIN keyword_shifts |->
                 [trend          |-> keyword_shifts[k].trend,
                  change         |-> keyword_shifts[k].change,
                  percent_change |-> keyword_shifts[k].percent_change]],
         cluster_drifts_summary |->
             [c \in DOMAIN cluster_drifts |->
                 [size_change         |-> cluster_drifts[c].size_change,
                  size_percent_change |-> cluster_drifts[c].size_percent_change,
                  drift_severity      |-> cluster_drifts[c].drift_severity]]]

\* TemporalAnalysisPipeline().run(): the generated snapshots are upserted and the
\* analysis of the generated timelines is inserted
TemporalAnalysisPipelineRun ==
    /\ Len(temporal_analysis) < MaxRuns
    /\ LET start_date == clock - GeneratorWeeks * WeekTicks
       IN  /\ temporal_snapshots' = SaveSnapshotsToMongodb(temporal_snapshots, start_date)
           /\ temporal_analysis' =
                  Append(temporal_analysis, AnalysisDoc(GetAllSnapshots(start_date), clock))
    /\ clock' = clock + 1
    /\ UNCHANGED <<temporal_snapshots_real, temporal_analysis_real, email_logs, outbox,
                   call, arg, ret>>

(***************************************************************************)
(* SpecCalc: the scalar functions applied to bounded inputs.               *)
(***************************************************************************)
\* std_dev values: 0, the cohesion-derived 1.43 and 3.33, and steps of the
\* step-mode normaliser (0.6, 1.5, 3.0 and 4.5 give 10, 25, 50 and 75 points)
StdVals == {Norm(n, 100) : n \in {0, 60, 143, 150, 300, 333, 450}}

\* magnitudes: quarter steps up to MaxMag and the values just under each threshold
Magnitudes ==
    {Norm(n, 4) : n \in 0..(4 * MaxMag)}
        \cup {Norm(n, 1000) : n \in {9999, 24999, 49999, 74999}}

PairArgs == [kind : {"pair"}, old : 0..MaxVal, new : 0..MaxVal]

ClusterArgs ==
    [kind : {"cluster"},
     sizes : (0..MaxSize) \X (0..MaxSize),
     std_devs : StdVals \X StdVals]

MagnitudeArgs == [kind : {"magnitude"}, magnitude : Magnitudes]

StoreIdle ==
    /\ temporal_snapshots_real = {}
    /\ temporal_analysis_real = <<>>
    /\ temporal_snapshots = {}
    /\ temporal_analysis = <<>>
    /\ email_logs = <<>>
    /\ outbox = <<>>
    /\ clock = 0

InitCalc ==
    /\ StoreIdle
    /\ call = "none"
    /\ arg \in PairArgs \cup ClusterArgs \cup MagnitudeArgs
    /\ ret = <<>>

Apply(kind, fn, value) ==
    /\ call = "none"
    /\ arg.kind = kind
    /\ call' = fn
    /\ ret' = value
    /\ UNCHANGED <<arg, temporal_snapshots_real, temporal_analysis_real,
                   temporal_snapshots, temporal_analysis, email_logs, outbox, clock>>

CallCalculatePercentChange ==
    Apply("pair", "_calculate_percent_change",
          CalculatePercentChange(Rat(arg.old), Rat(arg.new)))

CallKeywordShift ==
    Apply("pair", "keyword_shift", KeywordShift(Rat(arg.old), Rat(arg.new)))

CallClusterStat ==
    Apply("cluster", "cluster_stat",
          ClusterStat(<<Rat(arg.sizes[1]), Rat(arg.sizes[2])>>, arg.std_devs))

\* size_change and std_dev_change as detect_cluster_drift passes them
CallCalculateDriftMagnitude ==
    Apply("cluster", "_calculate_drift_magnitude",
          CalculateDriftMagnitude(Rat(arg.sizes[2] - arg.sizes[1]),
                                  RSub(arg.std_devs[2], arg.std_devs[1])))

CallClassifyDriftSeverity ==
    Apply("magnitude", "_classify_drift_severity", ClassifyDriftSeverity(arg.magnitude))

CallInlineDriftSeverity ==
    Apply("magnitude", "inline_drift_severity", InlineDriftSeverity(arg.magnitude))

NextCalc ==
    \/ CallCalculatePercentChange
    \/ CallKeywordShift
    \/ CallClusterStat
    \/ CallCalculateDriftMagnitude
    \/ CallClassifyDriftSeverity
    \/ CallInlineDriftSeverity

SpecCalc == InitCalc /\ [][NextCalc]_vars


(***************************************************************************)
(* SpecHandler: the handler's timeline functions applied to bounded        *)
(* timelines.  A timeline holds at most MaxObs (keywords, clusters) or     *)
(* MaxLen (metrics) observations with distinct dates, in any order; the    *)
(* metric timelines also hold the example sequences.                       *)
(***************************************************************************)
MaxObs == 3
MaxFreq == 2

Keywords == {"llm", "rag"}

ClusterIds == {"devops", "ai_llm"}

FreqVals == 0..MaxFreq

\* the (size, std_dev) pairs a cluster observation takes
ClusterObs == {<<0, Rat(0)>>, <<2, Norm(3, 2)>>, <<12, Rat(0)>>, <<12, Norm(3, 2)>>}

MetricVals == {0, 1, 5}

\* the sequences the specification names: [5, 5, 5, 5] and [1, 2, 3, 4, 5]
ExampleTimelines ==
    {[i \in 1..4 |-> <<i, 5>>], [i \in 1..5 |-> <<i, i>>]}

\* the date sequences of k observations: distinct dates among 1..bound
DateSeqs(k, bound) ==
    {d \in [1..k -> 1..bound] : \A i, j \in 1..k : d[i] = d[j] => i = j}

\* lists of (date, value) tuples
TupleTimelines(bound, values) ==
    UNION {{[i \in 1..k |-> <<d[i], v[i]>>] :
                d \in DateSeqs(k, bound), v \in [1..k -> values]} : k \in 0..bound}

\* lists of cluster state dicts
DictTimelines(bound) ==
    UNION {{[i \in 1..k |-> [date |-> d[i], size |-> v[i][1], std_dev |-> v[i][2]]] :
                d \in DateSeqs(k, bound),
                v \in [1..k -> ClusterObs]} : k \in 0..bound}

\* the timelines of the second keyword: one and two observations
OtherKeywordTimelines == {<<<<1, 2>>>>, <<<<2, 3>>, <<1, 1>>>>}

\* the timelines of the second cluster: one and two observations
OtherClusterTimelines ==
    {<<[date |-> 1, size |-> 2, std_dev |-> Norm(3, 2)]>>,
     <<[date |-> 2, size |-> 12, std_dev |-> Rat(0)],
       [date |-> 1, size |-> 2, std_dev |-> Norm(3, 2)]>>}

\* the value lists _detect_simple_trend is applied to, the empty one included
RecentValuesArgs ==
    UNION {{[kind |-> "recent_values", recent_values |-> v] :
                v \in [1..k -> FreqVals]} : k \in 0..MaxObs}

KeywordTimelineArgs ==
    {[kind |-> "keyword_timeline",
      keyword_timeline |-> [k \in Keywords |-> IF k = "llm" THEN t ELSE o]] :
        t \in TupleTimelines(MaxObs, FreqVals), o \in OtherKeywordTimelines}

ClusterTimelineArgs ==
    {[kind |-> "cluster_timeline",
      cluster_timeline |-> [c \in ClusterIds |-> IF c = "devops" THEN t ELSE o]] :
        t \in DictTimelines(MaxObs), o \in OtherClusterTimelines}

\* three values a + b * i in date order, at distinct dates among 1..4 given in any
\* order: rising and falling, means that are negative, 1 and above 1
LinearTimelines ==
    {[i \in 1..3 |-> <<d[i], a + b * Cardinality({j \in 1..3 : d[j] < d[i]})>>] :
        d \in DateSeqs(3, 4), a \in {0, 3}, b \in {-2, 1, 3}}

\* value sequences at weekly dates whose fit has r_squared 0.4 (0, 1, 2, 1 and
\* 0, 0, 2, 2, 1), 0.7 (0, 2, 1, 5 and 0, 2, 4, 2, 7), 0.64 and 0.1
QualityTimelines ==
    {[i \in 1..Len(v) |-> <<i, v[i]>>] :
        v \in {<<0, 1, 2, 1>>, <<0, 0, 2, 2, 1>>, <<0, 2, 1, 5>>, <<0, 2, 4, 2, 7>>,
               <<0, 1, 3, 2>>, <<0, 2, 1, 0, 2>>}}

MetricTimelineArgs ==
    {[kind |-> "metric_timeline", metric_timeline |-> t] :
        t \in TupleTimelines(MaxLen, MetricVals) \cup ExampleTimelines
                 \cup LinearTimelines \cup QualityTimelines}

\* the snapshots_data of a run: timelines of 0 to 2 points for llm and devops, of 1
\* and 2 points for rag and ai_llm
SnapshotsDataArgs ==
    {[kind |-> "snapshots_data",
      snapshots_data |->
          [keywords |-> [k \in Keywords |-> IF k = "llm" THEN t ELSE o],
           clusters |-> [c \in ClusterIds |-> IF c = "devops" THEN ct ELSE co]]] :
        t \in TupleTimelines(2, MetricVals), o \in OtherKeywordTimelines,
        ct \in OtherClusterTimelines \cup {<<>>}, co \in OtherClusterTimelines}

\* the eight weekly snapshots of the historical data: the keywords llm and
\* kubernetes and the cluster devops with std_dev = 1 / cohesion to two decimals
ExampleStore ==
    LET llm == <<2, 3, 5, 7, 10, 14, 18, 22>>
        kubernetes == <<12, 11, 10, 9, 7, 5, 4, 2>>
        devops_sizes == <<12, 11, 10, 8, 6, 4, 3, 2>>
        devops_std_devs == <<143, 147, 154, 161, 167, 200, 250, 333>>
    IN  {[timestamp         |-> week,
          keyword_evolution |-> ("llm" :> Freq(llm[week]))
                                    @@ ("kubernetes" :> Freq(kubernetes[week])),
          clusters          |-> ("devops" :> Cluster(devops_sizes[week],
                                                     Norm(devops_std_devs[week], 100)))] :
            week \in 1..8}

\* the stores of at most MaxSnapshots weekly snapshots, and the example store
SnapshotsArgs ==
    UNION {{[kind |-> "snapshots",
             snapshots |-> {Snapshot(i, b[i]) : i \in 1..k}] :
                b \in [1..k -> SnapshotBodies]} : k \in 0..MaxSnapshots}
        \cup {[kind |-> "snapshots", snapshots |-> ExampleStore]}

InitHandler ==
    /\ StoreIdle
    /\ call = "none"
    /\ arg \in KeywordTimelineArgs \cup ClusterTimelineArgs \cup MetricTimelineArgs
                  \cup SnapshotsArgs \cup RecentValuesArgs \cup SnapshotsDataArgs
    /\ ret = <<>>

CallDetectSimpleTrend ==
    Apply("recent_values", "_detect_simple_trend", DetectSimpleTrend(arg.recent_values))

CallAnalyzeKeywordShiftsInPlace ==
    /\ call = "none"
    /\ arg.kind = "keyword_timeline"
    /\ call' = "analyze_keyword_shifts"
    /\ ret' = AnalyzeKeywordShifts(arg.keyword_timeline)
    /\ arg' = [arg EXCEPT !.keyword_timeline =
                  [k \in DOMAIN @ |-> Sorted(@[k], [i \in 1..Len(@[k]) |-> @[k][i][1]])]]
    /\ UNCHANGED <<temporal_snapshots_real, temporal_analysis_real, temporal_snapshots,
                   temporal_analysis, email_logs, outbox, clock>>

CallAnalyzeKeywordShifts ==
    Apply("keyword_timeline", "analyze_keyword_shifts",
          AnalyzeKeywordShifts(arg.keyword_timeline))

CallDetectClusterDrift ==
    Apply("cluster_timeline", "detect_cluster_drift",
          DetectClusterDrift(arg.cluster_timeline))

CallModelTimeSeries ==
    Apply("metric_timeline", "model_time_series", ModelTimeSeries(arg.metric_timeline))

CallBuildTimeSeriesModels ==
    Apply("snapshots_data", "_build_time_series_models",
          BuildTimeSeriesModels(arg.snapshots_data))

\* the analysis of analyze_real_data as a function of the stored snapshots
CallAnalysisResult ==
    Apply("snapshots", "analyze_real_data", AnalysisResult(arg.snapshots, 1))

NextHandler ==
    \/ CallDetectSimpleTrend
    \/ CallAnalyzeKeywordShifts
    \/ CallDetectClusterDrift
    \/ CallModelTimeSeries
    \/ CallBuildTimeSeriesModels
    \/ CallAnalysisResult

SpecHandler == InitHandler /\ [][NextHandler]_vars

(***************************************************************************)
(* RetrievalContext and the reports: mappings are lists of <<key, value>>  *)
(* pairs in the iteration order of the dict.                               *)
(***************************************************************************)
\* sorted(seq, key=...) with float keys, reverse or not: stable in both directions
SortedByFloat(seq, keys, reverse) ==
    LET before(a, b) == IF reverse THEN RLt(b, a) ELSE RLt(a, b)
        rank(i) ==
            1 + Cardinality({j \in 1..Len(seq) :
                                \/ before(keys[j], keys[i])
                                \/ keys[j] = keys[i] /\ j < i})
    IN  [r \in 1..Len(seq) |-> seq[CHOOSE i \in 1..Len(seq) : rank(i) = r]]

\* seq[:n]
FirstN(seq, n) == IF Len(seq) <= n THEN seq ELSE SubSeq(seq, 1, n)

\* [x for x in seq if keep(x)], keep given per position
Filter(seq, keep) == SelectIdx(seq, {i \in DOMAIN keep : keep[i]})

\* str.upper() on the keywords of the model
Upper(keyword) ==
    CASE keyword = "llm" -> "LLM"
      [] keyword = "rag" -> "RAG"
      [] keyword = "agent" -> "AGENT"
      [] keyword = "neural" -> "NEURAL"
      [] keyword = "transformer" -> "TRANSFORMER"
      [] keyword = "embedding" -> "EMBEDDING"
      [] keyword = "model" -> "MODEL"
      [] keyword = "prompt" -> "PROMPT"
      [] keyword = "react" -> "REACT"
      [] keyword = "docker" -> "DOCKER"
      [] keyword = "devops" -> "DEVOPS"
      [] keyword = "kubernetes" -> "KUBERNETES"

\* the number of tenths f"{x:.1f}" shows: x rounded to one decimal, half to even
FormatTenths(x) ==
    LET q == (10 * x[1]) \div x[2]
        r == 10 * x[1] - q * x[2]
    IN  IF 2 * r < x[2] THEN q
        ELSE IF 2 * r > x[2] THEN q + 1
        ELSE IF q % 2 = 0 THEN q ELSE q + 1

\* texts are sequences of characters
DigitChars == <<"0", "1", "2", "3", "4", "5", "6", "7", "8", "9">>

RECURSIVE Digits(_)
\* str(n) for an integer n >= 0
Digits(n) ==
    IF n < 10 THEN <<DigitChars[n + 1]>>
    ELSE Append(Digits(n \div 10), DigitChars[(n % 10) + 1])

\* f"{x:+.1f}%": the sign of x, its magnitude rounded to one decimal, '%'
FormatSignedPercent(x) ==
    LET tenths == Abs(FormatTenths(x))
    IN  <<IF RLt(x, Rat(0)) THEN "-" ELSE "+">>
            \o Digits(tenths \div 10) \o <<".", DigitChars[(tenths % 10) + 1], "%">>

RECURSIVE RStrip(_, _)
\* text.rstrip(chars)
RStrip(text, chars) ==
    IF text # <<>> /\ text[Len(text)] \in chars
    THEN RStrip(SubSeq(text, 1, Len(text) - 1), chars)
    ELSE text

RECURSIVE LStrip(_, _)
\* text.lstrip(chars)
LStrip(text, chars) ==
    IF text # <<>> /\ text[1] \in chars THEN LStrip(Tail(text), chars) ELSE text

RECURSIVE ParseDigits(_)
\* int(text) for a text of digits, 0 for the empty text
ParseDigits(text) ==
    IF text = <<>> THEN 0
    ELSE 10 * ParseDigits(SubSeq(text, 1, Len(text) - 1))
             + (CHOOSE d \in 0..9 : DigitChars[d + 1] = text[Len(text)])

RECURSIVE Power10(_)
Power10(n) == IF n = 0 THEN 1 ELSE 10 * Power10(n - 1)

\* float(text) for a decimal text with an optional sign
ParseFloat(text) ==
    LET unsigned == IF text[1] \in {"+", "-"} THEN Tail(text) ELSE text
        point == CHOOSE i \in 1..Len(unsigned) : unsigned[i] = "."
        whole == SubSeq(unsigned, 1, point - 1)
        fraction == SubSeq(unsigned, point + 1, Len(unsigned))
        value == Norm(ParseDigits(whole \o fraction), Power10(Len(fraction)))
    IN  IF text[1] = "-" THEN RSub(Rat(0), value) ELSE value

ContextTopN == 10

\* RetrievalContext._format_keyword_shifts(keyword_shifts)
FormatKeywordShifts(keyword_shifts) ==
    LET n == Len(keyword_shifts)
        entry(i) ==
            [keyword   |-> Upper(keyword_shifts[i][1]),
             start     |-> keyword_shifts[i][2].start_frequency,
             end       |-> keyword_shifts[i][2].end_frequency,
             change    |-> FormatSignedPercent(keyword_shifts[i][2].percent_change),
             direction |-> keyword_shifts[i][2].trend_direction]
        entries == [i \in 1..n |-> entry(i)]
        rising == Filter(entries, [i \in 1..n |-> entries[i].direction = "RISING"])
        falling == Filter(entries, [i \in 1..n |-> entries[i].direction = "FALLING"])
        stable == Filter(entries, [i \in 1..n |-> entries[i].direction \notin {"RISING", "FALLING"}])
        key(list) == [i \in 1..Len(list) |-> ParseFloat(RStrip(list[i].change, {"%"}))]
        rising_sorted == SortedByFloat(rising, key(rising), TRUE)
        falling_sorted == SortedByFloat(falling, key(falling), FALSE)
    IN  [rising_keywords  |-> FirstN(rising_sorted, ContextTopN),
         falling_keywords |-> FirstN(falling_sorted, ContextTopN),
         stable_keywords  |-> stable]

\* str.lower() on the keywords the context holds in upper case
Lower(text) ==
    CHOOSE keyword \in {"llm", "rag", "agent", "neural", "transformer", "embedding",
                        "model", "prompt", "react", "docker", "devops", "kubernetes"} :
        Upper(keyword) = text

ParseChangeUnsigned(change) == ParseFloat(LStrip(RStrip(change, {"%"}), {"+", "-"}))

\* EmailPipeline.run: float(kw['change'].rstrip('%').lstrip('+'))
ParseChange(change) == ParseFloat(LStrip(RStrip(change, {"%"}), {"+"}))

\* EmailPipeline.run, "Convert keyword list format to dict format expected by
\* generator": the rising keywords are entered first, then the falling ones
AdaptKeywordShifts(keyword_shifts) ==
    LET rising == keyword_shifts.rising_keywords
        falling == keyword_shifts.falling_keywords
        entry(kw, direction) ==
            [direction      |-> direction,
             percent_change |-> ParseChange(kw.change),
             start_freq     |-> kw.start,
             end_freq       |-> kw.end]
        in_falling(name) == {i \in 1..Len(falling) : Lower(falling[i].keyword) = name}
        in_rising(name) == {i \in 1..Len(rising) : Lower(rising[i].keyword) = name}
    IN  [name \in {Lower(rising[i].keyword) : i \in 1..Len(rising)}
                      \cup {Lower(falling[i].keyword) : i \in 1..Len(falling)} |->
            IF in_falling(name) # {}
            THEN entry(falling[CHOOSE i \in in_falling(name) :
                                  \A j \in in_falling(name) : j <= i], "FALLING")
            ELSE entry(rising[CHOOSE i \in in_rising(name) :
                                 \A j \in in_rising(name) : j <= i], "RISING")]

\* isinstance(x, dict), None standing for the values that are no dict
IsDict(x) == x # None

GenerateTrendLabelInclusive(direction, strength) ==
    IF direction = "RISING"
    THEN IF RLe(Norm(7, 10), strength) THEN "STRONG RISING TREND"
         ELSE "MODERATE RISING TREND"
    ELSE IF direction = "FALLING"
    THEN IF RLe(Norm(7, 10), strength) THEN "STRONG FALLING TREND"
         ELSE "MODERATE FALLING TREND"
    ELSE "STABLE TREND"

\* _generate_trend_label(direction, strength)
GenerateTrendLabel(direction, strength) ==
    IF direction = "RISING"
    THEN IF RLt(Norm(7, 10), strength) THEN "STRONG RISING TREND"
         ELSE "MODERATE RISING TREND"
    ELSE IF direction = "FALLING"
    THEN IF RLt(Norm(7, 10), strength) THEN "STRONG FALLING TREND"
         ELSE "MODERATE FALLING TREND"
    ELSE "STABLE TREND"

\* _get_trend_emoji(direction), the emoji denoted by its name
GetTrendEmoji(direction) ==
    IF direction = "RISING" THEN "chart increasing"
    ELSE IF direction = "FALLING" THEN "chart decreasing"
    ELSE "arrow"

\* None where a float and where a str is expected
NoneFloat == <<0, -1>>

NoneText == "None"

\* the label label_trends builds for one time series entry
Label(metric_name, trend_data) ==
    LET direction == DictGet(trend_data, "trend_direction", "STABLE")
        strength == DictGet(trend_data, "trend_strength", Rat(0))
    IN  [metric        |-> metric_name,
         direction     |-> direction,
         strength      |-> strength,
         confidence    |-> RMin(Rat(1), DictGet(trend_data, "r_squared", Rat(0))),
         label_text    |-> GenerateTrendLabel(direction, strength),
         emoji         |-> GetTrendEmoji(direction),
         forecast      |-> DictGet(trend_data, "next_prediction", NoneFloat),
         model_quality |-> DictGet(trend_data, "model_quality", NoneText)]

\* the entries label_trends labels: dicts with a 'timeline' key
IsTimeSeries(trend_data) == IsDict(trend_data) /\ "timeline" \in DOMAIN trend_data

LabelTrendsAll(trend_analyses) ==
    [i \in 1..Len(trend_analyses) |->
        <<trend_analyses[i][1],
          IF IsTimeSeries(trend_analyses[i][2])
          THEN Label(trend_analyses[i][1], trend_analyses[i][2])
          ELSE Label(trend_analyses[i][1], EmptyDict)>>]

\* label_trends(trend_analyses)
LabelTrends(trend_analyses) ==
    LET n == Len(trend_analyses)
        labels == [i \in 1..n |->
                      <<trend_analyses[i][1],
                        IF IsTimeSeries(trend_analyses[i][2])
                        THEN Label(trend_analyses[i][1], trend_analyses[i][2])
                        ELSE None>>]
    IN  Filter(labels, [i \in 1..n |-> IsTimeSeries(trend_analyses[i][2])])

ReportTopKeywords == 5

ReportTopClusters == 3

\* generate_trend_report(keyword_shifts, cluster_drifts, trend_labels): the items
\* the report renders, section by section and in the order of its lines
GenerateTrendReport(keyword_shifts, cluster_drifts, trend_labels) ==
    LET n == Len(keyword_shifts)
        is(trend) == [i \in 1..n |-> keyword_shifts[i][2].trend = trend]
        key(list) == [i \in 1..Len(list) |-> list[i][2].percent_change]
        rising == Filter(keyword_shifts, is("RISING"))
        falling == Filter(keyword_shifts, is("FALLING"))
        drift == [i \in 1..Len(cluster_drifts) |-> cluster_drifts[i][2].drift_magnitude]
    IN  [rising_keywords  |-> FirstN(SortedByFloat(rising, key(rising), TRUE),
                                     ReportTopKeywords),
         falling_keywords |-> FirstN(SortedByFloat(falling, key(falling), FALSE),
                                     ReportTopKeywords),
         high_drift       |-> FirstN(SortedByFloat(cluster_drifts, drift, TRUE),
                                     ReportTopClusters),
         trend_summary    |-> [i \in 1..Len(trend_labels) |->
                                  [metric     |-> trend_labels[i][1],
                                   emoji      |-> trend_labels[i][2].emoji,
                                   label_text |-> trend_labels[i][2].label_text,
                                   strength   |-> trend_labels[i][2].strength,
                                   confidence |-> trend_labels[i][2].confidence]]]

\* analyze_real_data, "Display top shifts": the keywords printed under the two
\* headings, in the order of the lines
DisplayTopShifts(keyword_shifts) ==
    LET key == [i \in 1..Len(keyword_shifts) |-> keyword_shifts[i][2].percent_change]
        sorted_shifts == SortedByFloat(keyword_shifts, key, TRUE)
        top == FirstN(sorted_shifts, ReportTopKeywords)
        falling == Filter(sorted_shifts, [i \in 1..Len(sorted_shifts) |->
                                             sorted_shifts[i][2].trend_direction = "FALLING"])
    IN  [rising_keywords  |-> Filter(top, [i \in 1..Len(top) |->
                                               top[i][2].trend_direction = "RISING"]),
         falling_keywords |-> FirstN(falling, ReportTopKeywords)]

(***************************************************************************)
(* SpecReport: the context and report functions applied to bounded         *)
(* ordered mappings.                                                       *)
(***************************************************************************)
MaxShifts == 3

KeywordNames ==
    <<"llm", "rag", "agent", "neural", "transformer", "embedding", "model",
      "prompt", "react", "docker", "devops", "kubernetes">>

\* first and last frequency of a keyword: near-equal rises (31 -> 37, 36 -> 43) and
\* falls (41 -> 1, 42 -> 1), the example rise and fall, a stable pair, a new keyword,
\* a fall of 0.04 percent
FrequencyPairs ==
    {<<31, 37>>, <<36, 43>>, <<41, 1>>, <<42, 1>>, <<2, 22>>, <<12, 2>>, <<20, 21>>, <<0, 3>>,
     <<2500, 2499>>}

\* twelve rising keywords, 10 -> 11, ..., 10 -> 22, in an order given by a rotation
\* and a direction
LongShifts(rotation, reversed) ==
    [i \in 1..12 |->
        LET j == ((i - 1 + rotation) % 12) + 1
            k == IF reversed THEN 13 - j ELSE j
        IN  <<KeywordNames[k], KeywordShift(Rat(10), Rat(10 + k))>>]

\* the keyword_shifts mappings of an analysis result, in iteration order
WholeSpanShiftArgs ==
    UNION {{[kind |-> "keyword_shifts",
             keyword_shifts |->
                 [i \in 1..n |-> <<KeywordNames[i], KeywordShift(Rat(p[i][1]), Rat(p[i][2]))>>]] :
                p \in [1..n -> FrequencyPairs]} : n \in 0..MaxShifts}
        \cup {[kind |-> "keyword_shifts", keyword_shifts |-> LongShifts(rotation, reversed)] :
                rotation \in 0..11, reversed \in BOOLEAN}

\* step-mode frequency timelines: rises of 100 (twice), 25 and 50 percent, falls of
\* 50 and 25 percent, a flat last step, two points
StepTimelines ==
    {<<<<1, 1>>, <<2, 2>>, <<3, 4>>>>, <<<<1, 2>>, <<2, 3>>, <<3, 6>>>>,
     <<<<1, 2>>, <<2, 4>>, <<3, 5>>>>, <<<<3, 3>>, <<1, 1>>, <<2, 2>>>>,
     <<<<1, 4>>, <<2, 2>>, <<3, 1>>>>, <<<<1, 5>>, <<2, 4>>, <<3, 3>>>>,
     <<<<1, 1>>, <<2, 2>>, <<3, 2>>>>, <<<<2, 1>>, <<1, 4>>>>}

\* the keyword_shifts mappings of analyze_keyword_shifts, in iteration order
StepShifts ==
    UNION {{[i \in 1..n |-> <<KeywordNames[i], ShiftData(KeywordNames[i], t[i])>>] :
                t \in [1..n -> StepTimelines]} : n \in 0..MaxShifts}
        \cup {[i \in 1..7 |->
                  LET k == ((i - 1 + rotation) % 7) + 1
                  IN  <<KeywordNames[k],
                        ShiftData(KeywordNames[k], <<<<1, 10>>, <<2, 20>>, <<3, 20 + k>>>>)>>] :
                rotation \in 0..6}

ClusterNames == <<"devops", "ai_llm", "frontend", "backend">>

\* step-mode cluster timelines of two observations: magnitudes 0, 25 (twice), 50, 100
ClusterStepTimelines ==
    {<<[date |-> 1, size |-> 8, std_dev |-> Rat(1)], [date |-> 2, size |-> 8, std_dev |-> Rat(1)]>>,
     <<[date |-> 1, size |-> 8, std_dev |-> Rat(1)], [date |-> 2, size |-> 8, std_dev |-> Norm(5, 2)]>>,
     <<[date |-> 2, size |-> 8, std_dev |-> Rat(1)], [date |-> 1, size |-> 8, std_dev |-> Norm(5, 2)]>>,
     <<[date |-> 1, size |-> 2, std_dev |-> Rat(1)], [date |-> 2, size |-> 12, std_dev |-> Norm(5, 2)]>>,
     <<[date |-> 1, size |-> 12, std_dev |-> Rat(1)], [date |-> 2, size |-> 2, std_dev |-> Rat(1)]>>}

\* the cluster_drifts mappings of detect_cluster_drift, in iteration order
ClusterDrifts ==
    UNION {{[i \in 1..n |-> <<ClusterNames[i], DriftData(ClusterNames[i], t[i])>>] :
                t \in [1..n -> ClusterStepTimelines]} : n \in {0, 2, 4}}

\* what label_trends is handed: the models of the example sequences, of a fall and
\* of a weak fit, the result for fewer than 2 points, and a value that is no dict
TrendData ==
    {ModelTimeSeries(t) : t \in ExampleTimelines}
        \cup {ModelTimeSeries(<<<<1, 5>>, <<2, 1>>>>),
              ModelTimeSeries(<<<<1, 1>>, <<2, 5>>, <<3, 0>>>>),
              ModelTimeSeries(<<<<1, 3>>>>), None}

MetricNames == <<"keyword_llm", "keyword_rag", "cluster_size_devops", "cluster_size_ai_llm">>

\* the trend_analyses mappings, in iteration order
TrendAnalyses ==
    UNION {{[i \in 1..n |-> <<MetricNames[i], d[i]>>] : d \in [1..n -> TrendData]} :
              n \in 0..MaxShifts}

\* directions and strengths of a label: the threshold 0.7 and its neighbours
LabelArgs ==
    {[kind |-> "label_args", direction |-> d, strength |-> x] :
        d \in {"RISING", "FALLING", "STABLE"},
        x \in {Rat(0), Norm(1, 2), Norm(69, 100), Norm(7, 10), Norm(71, 100), Rat(1)}}

TrendAnalysesArgs ==
    {[kind |-> "trend_analyses", trend_analyses |-> a] : a \in TrendAnalyses}

\* the mappings of a run over one keyword, one cluster and one metric
OneShift == <<<<"llm", ShiftData("llm", <<<<1, 1>>, <<2, 2>>, <<3, 4>>>>)>>>>

OneDrift ==
    <<<<"devops", DriftData("devops", <<[date |-> 1, size |-> 12, std_dev |-> Rat(1)],
                                        [date |-> 2, size |-> 2, std_dev |-> Rat(1)]>>)>>>>

OneLabel == LabelTrends(<<<<"keyword_llm", ModelTimeSeries(<<<<1, 5>>, <<2, 1>>>>)>>>>)

\* the arguments of generate_trend_report: each mapping in turn ranges over its
\* values while the other two are fixed
ReportArgs ==
    {[kind |-> "report", keyword_shifts |-> k, cluster_drifts |-> OneDrift,
      trend_labels |-> OneLabel] : k \in StepShifts}
        \cup {[kind |-> "report", keyword_shifts |-> OneShift, cluster_drifts |-> c,
               trend_labels |-> OneLabel] : c \in ClusterDrifts}
        \cup {[kind |-> "report", keyword_shifts |-> OneShift, cluster_drifts |-> OneDrift,
               trend_labels |-> LabelTrends(a)] : a \in TrendAnalyses}

InitReport ==
    /\ StoreIdle
    /\ call = "none"
    /\ arg \in WholeSpanShiftArgs \cup TrendAnalysesArgs \cup ReportArgs \cup LabelArgs
                  \cup MetricTimelineArgs \cup KeywordTimelineArgs
                  \cup ClusterTimelineArgs
    /\ ret = <<>>

\* the keyword shifts of the context and what EmailPipeline.run hands the
\* newsletter generator for them
CallAdaptKeywordShifts ==
    Apply("keyword_shifts", "adapt_keyword_shifts",
          LET keyword_shifts == FormatKeywordShifts(arg.keyword_shifts)
          IN  [keyword_shifts |-> keyword_shifts,
               adapted        |-> AdaptKeywordShifts(keyword_shifts)])

CallFormatKeywordShifts ==
    Apply("keyword_shifts", "_format_keyword_shifts", FormatKeywordShifts(arg.keyword_shifts))

CallDisplayTopShifts ==
    Apply("keyword_shifts", "display_top_shifts", DisplayTopShifts(arg.keyword_shifts))

\* the label text and the emoji label_trends derives from a direction and a strength
CallGenerateTrendLabel ==
    Apply("label_args", "_generate_trend_label",
          [label_text |-> GenerateTrendLabel(arg.direction, arg.strength),
           emoji      |-> GetTrendEmoji(arg.direction)])

CallLabelTrends ==
    Apply("trend_analyses", "label_trends", LabelTrends(arg.trend_analyses))

\* steps 5 and 6 of run_full_analysis for one metric: its model and its label
CallModelAndLabel ==
    Apply("metric_timeline", "model_and_label",
          LET model == ModelTimeSeries(arg.metric_timeline)
          IN  [model |-> model,
               trend_labels |-> LabelTrends(<<<<"keyword_llm", model>>>>)])

\* steps 6 and 7 of run_full_analysis: the labels and the report rendered from them
CallLabelAndReport ==
    Apply("trend_analyses", "label_and_report",
          LET trend_labels == LabelTrends(arg.trend_analyses)
          IN  [trend_labels |-> trend_labels,
               report |-> GenerateTrendReport(OneShift, OneDrift, trend_labels)])

CallGenerateTrendReport ==
    Apply("report", "generate_trend_report",
          GenerateTrendReport(arg.keyword_shifts, arg.cluster_drifts, arg.trend_labels))

\* the analysis functions: the handler's public functions on timelines, models
\* and labels
AnalysisFunctions ==
    {"analyze_keyword_shifts", "detect_cluster_drift", "model_time_series",
     "label_trends", "generate_trend_report"}

\* what the analysis function fn returns for the argument in the state
Returned(fn) ==
    CASE fn = "analyze_keyword_shifts" -> AnalyzeKeywordShifts(arg.keyword_timeline)
      [] fn = "detect_cluster_drift" -> DetectClusterDrift(arg.cluster_timeline)
      [] fn = "model_time_series" -> ModelTimeSeries(arg.metric_timeline)
      [] fn = "label_trends" -> LabelTrends(arg.trend_analyses)
      [] fn = "generate_trend_report" ->
             GenerateTrendReport(arg.keyword_shifts, arg.cluster_drifts, arg.trend_labels)

\* the analysis function that was applied is applied once more to the argument
\* as the first call left it
CallAgain ==
    /\ call \in AnalysisFunctions
    /\ clock = 0
    /\ clock' = 1
    /\ ret' = Returned(call)
    /\ UNCHANGED <<call, arg, temporal_snapshots_real, temporal_analysis_real,
                   temporal_snapshots, temporal_analysis, email_logs, outbox>>

NextReport ==
    \/ CallAnalyzeKeywordShifts
    \/ CallDetectClusterDrift
    \/ CallModelTimeSeries
    \/ CallAgain
    \/ CallFormatKeywordShifts
    \/ CallAdaptKeywordShifts
    \/ CallDisplayTopShifts
    \/ CallGenerateTrendLabel
    \/ CallLabelTrends
    \/ CallModelAndLabel
    \/ CallLabelAndReport
    \/ CallGenerateTrendReport

SpecReport == InitReport /\ [][NextReport]_vars

(***************************************************************************)
(* RetrievalContext.get_latest_trends over the stored results, and Spec.   *)
(***************************************************************************)
\* the first stored result in ascending order of timestamp
FindOneOldest(collection) ==
    IF collection = <<>> THEN None
    ELSE collection[CHOOSE i \in DOMAIN collection :
                        \A j \in DOMAIN collection :
                            /\ collection[i].timestamp <= collection[j].timestamp
                            /\ collection[i].timestamp = collection[j].timestamp => i <= j]

\* find_one(sort=[('timestamp', -1)]): None for an empty collection, else the
\* document with the greatest timestamp (the first inserted among equals)
FindOneLatest(collection) ==
    IF collection = <<>> THEN None
    ELSE collection[CHOOSE i \in DOMAIN collection :
                        \A j \in DOMAIN collection :
                            /\ collection[i].timestamp >= collection[j].timestamp
                            /\ collection[i].timestamp = collection[j].timestamp => i <= j]

\* dict.items() of a stored dict whose keys were inserted in the order of names
Items(d, names) ==
    LET present == SelectIdx(names, {i \in DOMAIN names : names[i] \in DOMAIN d})
    IN  [i \in 1..Len(present) |-> <<present[i], d[present[i]]>>]

\* RetrievalContext._interpret_drift(cluster_name, severity, size_change)
InterpretDrift(cluster_name, severity, size_change) ==
    IF cluster_name = "ai_llm" /\ severity = "EXTREME" THEN "Explosive growth"
    ELSE IF cluster_name = "frontend" /\ severity = "MINIMAL" THEN "stable and reliable"
    ELSE IF cluster_name = "devops" /\ severity = "EXTREME" THEN "Sharp decline"
    ELSE IF RLt(Rat(50), size_change) THEN "Significant growth"
    ELSE IF RLt(size_change, Rat(-50)) THEN "Significant decline"
    ELSE "relatively stable"

\* RetrievalContext._format_cluster_insights(cluster_stats)
FormatClusterInsights(cluster_stats) ==
    [cluster_name \in DOMAIN cluster_stats |->
        LET stats == cluster_stats[cluster_name]
        IN  [name            |-> cluster_name,
             drift_severity  |-> stats.drift_severity,
             size_change     |-> FormatSignedPercent(stats.size_change_percent),
             drift_magnitude |-> FormatTenths(stats.drift_magnitude),
             interpretation  |-> InterpretDrift(cluster_name, stats.drift_severity,
                                                stats.size_change_percent)]]

\* RetrievalContext._generate_narrative(analysis): the three counts the text shows
GenerateNarrative(analysis) ==
    LET keyword_shifts == analysis.keyword_shifts
        count(direction) ==
            Cardinality({k \in DOMAIN keyword_shifts :
                            keyword_shifts[k].trend_direction = direction})
    IN  [rising_count  |-> count("RISING"),
         falling_count |-> count("FALLING"),
         stable_count  |-> count("STABLE")]

\* RetrievalContext.get_latest_trends(): the ValueError for an empty store, else
\* the context of the latest stored result (both dates are printed from its
\* timestamp)
GetLatestTrends(collection) ==
    LET analysis == FindOneLatest(collection)
    IN  IF analysis = None
        THEN [raised  |-> "ValueError",
              message |-> "No temporal analysis found. Run analyze_real_trends.py first."]
        ELSE [analysis_date    |-> analysis.timestamp,
              week_ending      |-> analysis.timestamp,
              summary_stats    |->
                  [total_keywords   |-> analysis.keywords_analyzed,
                   clusters_tracked |-> analysis.clusters_analyzed,
                   weeks_analyzed   |-> analysis.weeks_analyzed],
              keyword_shifts   |->
                  FormatKeywordShifts(Items(analysis.keyword_shifts, KeywordNames)),
              cluster_insights |-> FormatClusterInsights(analysis.cluster_stats),
              narrative        |-> GenerateNarrative(analysis)]

\* a call of get_latest_trends between the runs
CallGetLatestTrends ==
    /\ call' = "get_latest_trends"
    /\ ret' = GetLatestTrends(temporal_analysis_real)
    /\ UNCHANGED <<temporal_snapshots_real, temporal_analysis_real, temporal_snapshots,
                   temporal_analysis, email_logs, outbox, clock, arg>>

Next ==
    \/ \E weeks \in 0..MaxSnapshots, history \in Histories :
           AggregateSnapshots(weeks, history)
    \/ AnalyzeRealData
    \/ TemporalAnalysisPipelineRun
    \/ CallGetLatestTrends

Spec == Init /\ [][Next]_vars

(***************************************************************************)
(* SpecEmail: EmailPipeline.run, called directly and by the job of the     *)
(* scheduler, over stored results and users.                               *)
(***************************************************************************)
\* the users of one run at most, and the runs of one behaviour at most
MaxRecipients == 3

MaxEmailRuns == 2

User(first_name, email, subscribed) ==
    [first_name |-> first_name, email |-> email, subscribed |-> subscribed]

\* db['users'] in the order find() returns it: nobody, nobody subscribed, one
\* subscriber, two among three users, and a subscriber who signed up twice
UsersCollections ==
    {<<>>,
     <<User("Cy", "cy@example.com", FALSE)>>,
     <<User("Ada", "ada@example.com", TRUE)>>,
     <<User("Ada", "ada@example.com", TRUE), User("Cy", "cy@example.com", FALSE),
       User("Bob", "bob@example.com", TRUE)>>,
     <<User("Ada", "ada@example.com", TRUE), User("Bob", "bob@example.com", TRUE),
       User("Ada L", "ada@example.com", TRUE)>>}

TestRecipients == {<<>>, <<"qa@example.com">>}

\* the stores the results came from and the results stored so far
StoredResults ==
    LET early == {Snapshot(week, HistoryBody(1, week)) : week \in 1..2}
        late == {Snapshot(week, HistoryBody(1, week)) : week \in 1..3}
    IN  {<<>>,
         <<AnalysisResult(late, 1)>>,
         <<AnalysisResult(early, 1), AnalysisResult(late, 2)>>}

EmailArgs ==
    [kind : {"email"}, users : UsersCollections, preview_only : BOOLEAN,
     test_recipients : TestRecipients]

InitEmail ==
    /\ temporal_analysis_real \in StoredResults
    /\ temporal_snapshots_real =
           IF temporal_analysis_real = <<>> THEN {}
           ELSE {Snapshot(week, HistoryBody(1, week)) : week \in 1..3}
    /\ temporal_snapshots = {}
    /\ temporal_analysis = <<>>
    /\ email_logs = <<>>
    /\ outbox = <<>>
    /\ clock = Len(temporal_analysis_real) + 1
    /\ call = "none"
    /\ arg \in EmailArgs
    /\ ret = <<>>

\* _get_subscribed_users(): email and name of the users with subscribed True
GetSubscribedUsers(users_collection) ==
    LET users == SelectIdx(users_collection,
                     {i \in DOMAIN users_collection : users_collection[i].subscribed})
    IN  [i \in 1..Len(users) |->
            [email |-> users[i].email,
             name  |-> DictGet(users[i], "name", users[i].email)]]

\* phase 2 of run: the subscribed users, or the test recipients when given (the
\* name of a test recipient is the part of the address before the @)
Users(users_collection, test_recipients) ==
    IF test_recipients # <<>>
    THEN [i \in 1..Len(test_recipients) |->
             [email |-> test_recipients[i], name |-> test_recipients[i]]]
    ELSE GetSubscribedUsers(users_collection)

\* emails_to_send: one email per user in order (subject and bodies are the
\* template with the first name of the user filled in)
EmailsToSend(users) == [i \in 1..Len(users) |-> [to |-> users[i].email]]

\* GmailAPISender.send_batch(emails): every email is handed to send_email in
\* order, delivers[i] being what send_email returns for the i-th; results is a
\* dict keyed by recipient, so a later attempt for the same recipient replaces
\* the value of the earlier one and keeps its place
SendBatch(emails, delivers) ==
    LET n == Len(emails)
        firsts == {i \in 1..n : \A j \in 1..(i - 1) : emails[j].to # emails[i].to}
        last(recipient) ==
            CHOOSE i \in 1..n :
                /\ emails[i].to = recipient
                /\ \A j \in (i + 1)..n : emails[j].to # recipient
        keys == SelectIdx(emails, firsts)
    IN  [sent    |-> [i \in 1..n |-> [to |-> emails[i].to, success |-> delivers[i]]],
         results |-> [k \in 1..Len(keys) |-> <<keys[k].to, delivers[last(keys[k].to)]>>]]

\* _log_delivery_results_batch(newsletter, delivery_results): one record per
\* entry of delivery_results
LogDeliveryResultsBatch(delivery_results, now) ==
    [k \in 1..Len(delivery_results) |->
        [timestamp |-> now,
         recipient |-> delivery_results[k][1],
         success   |-> delivery_results[k][2]]]

\* the execution_log run starts with (master_newsletter is absent until the
\* newsletter is generated)
ExecutionLog(now) ==
    [timestamp         |-> now,
     phase             |-> "full_pipeline",
     context           |-> None,
     newsletters       |-> <<>>,
     delivery_results  |-> <<>>,
     logged_records    |-> <<>>,
     errors            |-> <<>>,
     master_newsletter |-> None]

FailedSilently(execution_log, error) == execution_log

\* except Exception as e: execution_log['errors'].append(str(e))
Failed(execution_log, error) ==
    [execution_log EXCEPT !.errors = Append(@, error)]

\* EmailPipeline.run(preview_only, test_recipients): the returned log, the emails
\* handed to the sender and the delivery records inserted; generates tells
\* whether generate_newsletter returns, logged is the number of records in
\* email_logs before the run
RunOutcome(preview_only, test_recipients, generates, delivers, collection, users_collection, logged, now) ==
    LET execution_log == ExecutionLog(now)
        context == GetLatestTrends(collection)
        users == Users(users_collection, test_recipients)
        with_context == [execution_log EXCEPT !.context = context]
        generated ==
            [with_context EXCEPT
                !.master_newsletter =
                    [recipient_count |-> Len(users), template_based |-> TRUE]]
        batch == SendBatch(EmailsToSend(users), delivers)
        records == LogDeliveryResultsBatch(batch.results, now)
        nothing(log) == [execution_log |-> log, sent |-> <<>>, records |-> <<>>]
    IN  IF "raised" \in DOMAIN context
        THEN nothing(Failed(execution_log, context.message))
        ELSE IF users = <<>>
        THEN nothing([with_context EXCEPT !.phase = "generation_only"])
        ELSE IF ~generates
        THEN nothing(Failed([with_context EXCEPT
                                !.errors = Append(@, "Failed to generate newsletter template")],
                            "generate_newsletter failed"))
        ELSE IF preview_only
        THEN nothing([generated EXCEPT !.phase = "generation_only"])
        ELSE [execution_log |->
                 [generated EXCEPT
                     !.delivery_results = batch.results,
                     !.logged_records = [k \in 1..Len(records) |-> logged + k]],
              sent    |-> batch.sent,
              records |-> records]

\* one run of the pipeline by the caller named in entry; run_job catches and logs
\* what run raises
RunStep(entry, preview_only, test_recipients, generates, delivers) ==
    /\ arg.kind = "email"
    /\ clock - Len(temporal_analysis_real) <= MaxEmailRuns
    /\ LET outcome == RunOutcome(preview_only, test_recipients, generates, delivers,
                                 temporal_analysis_real, arg.users, Len(email_logs), clock)
       IN  /\ ret' = IF entry = "run_job" /\ "raised" \in DOMAIN outcome.execution_log
                     THEN [caught |-> outcome.execution_log.raised]
                     ELSE outcome.execution_log
           /\ outbox' = outbox \o outcome.sent
           /\ email_logs' = email_logs \o outcome.records
    /\ call' = entry
    /\ clock' = clock + 1
    /\ UNCHANGED <<temporal_snapshots_real, temporal_analysis_real, temporal_snapshots,
                   temporal_analysis, arg>>

\* pipeline.run(preview_only=..., test_recipients=...) as main() calls it
Run(generates, delivers) ==
    RunStep("run", arg.preview_only, arg.test_recipients, generates, delivers)

RunJobAlwaysSending(generates, delivers) ==
    RunStep("run_job", FALSE, <<>>, generates, delivers)

\* run_job() of schedule_weekly(preview_only=...), once for each time the loop of
\* run_daemon finds the job due: self.pipeline.run(preview_only=preview_only)
\* inside try/except
RunJob(generates, delivers) ==
    RunStep("run_job", arg.preview_only, <<>>, generates, delivers)

NextEmail ==
    \/ \E generates \in BOOLEAN, delivers \in [1..MaxRecipients -> BOOLEAN] :
           Run(generates, delivers)
    \/ \E generates \in BOOLEAN, delivers \in [1..MaxRecipients -> BOOLEAN] :
           RunJob(generates, delivers)

SpecEmail == InitEmail /\ [][NextEmail]_vars

(***************************************************************************)
(* Properties of the scalar functions (SpecCalc).                          *)
(***************************************************************************)
\* the zero-guarded percent-change policy, stated on integers
PercentChangePolicy(old, new) ==
    IF old > 0 THEN Norm((new - old) * 100, old)
    ELSE IF new > 0 THEN Rat(100) ELSE Rat(0)

\* the severity thresholds, each upper bound strict
SeverityPolicy(m) ==
    CASE RLt(m, Rat(10)) -> "MINIMAL"
      [] RLe(Rat(10), m) /\ RLt(m, Rat(25)) -> "LOW"
      [] RLe(Rat(25), m) /\ RLt(m, Rat(50)) -> "MEDIUM"
      [] RLe(Rat(50), m) /\ RLt(m, Rat(75)) -> "HIGH"
      [] RLe(Rat(75), m) -> "EXTREME"

\* C1: for non-negative (old, new) the percent change is (new - old) / old * 100
\* when old > 0, 100 when old = 0 < new and 0 when both are 0; it never divides
\* by zero; _calculate_percent_change and the inline whole-span computation agree.
C1_PercentChange ==
    /\ call = "_calculate_percent_change" =>
          /\ ~Raised(ret)
          /\ ret = PercentChangePolicy(arg.old, arg.new)
          /\ ret = KeywordShift(Rat(arg.old), Rat(arg.new)).percent_change
    /\ call = "keyword_shift" =>
          /\ ~Raised(ret.percent_change)
          /\ ret.percent_change = PercentChangePolicy(arg.old, arg.new)
          /\ ret.percent_change = CalculatePercentChange(Rat(arg.old), Rat(arg.new))

C1_Witness ==
    /\ call = "_calculate_percent_change"
    /\ arg.old = 0
    /\ arg.new > 0
    /\ ret = Rat(100)

\* C2: the whole-span trend_direction is RISING exactly when percent_change > 5,
\* FALLING exactly when percent_change < -5 and STABLE otherwise; 5 and -5 are STABLE.
C2_TrendDirection ==
    call = "keyword_shift" =>
        /\ ret.trend_direction \in {"RISING", "FALLING", "STABLE"}
        /\ ret.trend_direction = "RISING" <=> RLt(Rat(5), ret.percent_change)
        /\ ret.trend_direction = "FALLING" <=> RLt(ret.percent_change, Rat(-5))
        /\ ret.percent_change \in {Rat(5), Rat(-5)} => ret.trend_direction = "STABLE"

C2_Witness ==
    /\ call = "keyword_shift"
    /\ arg.old = 20
    /\ arg.new = 21
    /\ ret.percent_change = Rat(5)
    /\ ret.trend_direction = "STABLE"

\* C3: severity is MINIMAL below 10, LOW in [10, 25), MEDIUM in [25, 50), HIGH in
\* [50, 75) and EXTREME from 75; the handler's classifier and the inline ladder agree.
C3_DriftSeverity ==
    /\ call = "_classify_drift_severity" =>
          /\ ret = SeverityPolicy(arg.magnitude)
          /\ ret = InlineDriftSeverity(arg.magnitude)
    /\ call = "inline_drift_severity" =>
          /\ ret = SeverityPolicy(arg.magnitude)
          /\ ret = ClassifyDriftSeverity(arg.magnitude)

C3_Witness ==
    /\ call = "_classify_drift_severity"
    /\ arg.magnitude = Rat(75)
    /\ ret = "EXTREME"

\* C4: the whole-span size_change_percent and std_dev_change_percent follow the
\* zero-guarded policy of the keyword shifts: 100 when first = 0 < last.
C4_ClusterChangeZeroGuard ==
    call = "cluster_stat" =>
        /\ ret.size_change_percent =
               CalculatePercentChange(Rat(arg.sizes[1]), Rat(arg.sizes[2]))
        /\ ret.std_dev_change_percent =
               CalculatePercentChange(arg.std_devs[1], arg.std_devs[2])

\* C5: a change in size alone or in dispersion alone never gives a step-mode
\* magnitude above 50.
C5_SingleFactorAtMost50 ==
    (/\ call = "_calculate_drift_magnitude"
     /\ \/ arg.sizes[1] = arg.sizes[2]
        \/ arg.std_devs[1] = arg.std_devs[2])
        => RLe(ret, Rat(50))

\* C7: the whole-span drift_magnitude is |size_change_percent| +
\* |std_dev_change_percent|, non-negative and not capped, with the severity of the
\* shared thresholds; 12 -> 2 with 1.43 -> 3.33 gives -250/3, 19000/143, 92750/429, EXTREME.
C7_WholeSpanMagnitude ==
    call = "cluster_stat" =>
        /\ ret.drift_magnitude =
               RAdd(RAbs(ret.size_change_percent), RAbs(ret.std_dev_change_percent))
        /\ ret.drift_magnitude =
               RAdd(RAbs(ret.std_dev_change_percent),
                    RAbs(RSub(Rat(0), ret.size_change_percent)))
        /\ RLe(Rat(0), ret.drift_magnitude)
        /\ ret.drift_severity = SeverityPolicy(ret.drift_magnitude)
        /\ (arg.sizes = <<12, 2>> /\ arg.std_devs = <<Norm(143, 100), Norm(333, 100)>>) =>
               /\ ret.size_change_percent = Norm(-250, 3)
               /\ ret.std_dev_change_percent = Norm(19000, 143)
               /\ ret.drift_magnitude = Norm(92750, 429)
               /\ ret.drift_severity = "EXTREME"

C7_Witness ==
    /\ call = "cluster_stat"
    /\ arg.sizes = <<12, 2>>
    /\ arg.std_devs = <<Norm(143, 100), Norm(333, 100)>>
    /\ RLt(Rat(216), ret.drift_magnitude)
    /\ ret.drift_severity = "EXTREME"


(***************************************************************************)
(* Properties of the timeline functions (SpecHandler).                     *)
(***************************************************************************)
\* the observation of a timeline of dicts with the n-th latest date (n = 1: the latest)
NthLatest(timeline, n) ==
    LET i == CHOOSE i \in 1..Len(timeline) :
                 Cardinality({j \in 1..Len(timeline) :
                                 timeline[j].date > timeline[i].date}) = n - 1
    IN  timeline[i]

\* min(100, 50 * |dsize| / max(1, dsize + 10) + 50 * |dstd_dev| / 3)
StepMagnitudeFormula(dsize, dstd_dev) ==
    LET denominator == IF dsize + 10 > 1 THEN dsize + 10 ELSE 1
        sum == RAdd(Norm(50 * Abs(dsize), denominator), RDiv(RMul(Rat(50), RAbs(dstd_dev)), Rat(3)))
    IN  IF RLt(Rat(100), sum) THEN Rat(100) ELSE sum

\* C6: the step-mode drift magnitude of detect_cluster_drift is the formula applied to
\* the changes between the last two observations by date, and lies in [0, 100].
C6_StepMagnitude ==
    call = "detect_cluster_drift" =>
        \A c \in DOMAIN ret :
            LET last == NthLatest(arg.cluster_timeline[c], 1)
                previous == NthLatest(arg.cluster_timeline[c], 2)
            IN  /\ ret[c].drift_magnitude =
                       StepMagnitudeFormula(last.size - previous.size,
                                            RSub(last.std_dev, previous.std_dev))
                /\ RLe(Rat(0), ret[c].drift_magnitude)
                /\ RLe(ret[c].drift_magnitude, Rat(100))

C6_Witness ==
    /\ call = "detect_cluster_drift"
    /\ Len(arg.cluster_timeline["devops"]) = 3
    /\ arg.cluster_timeline["devops"][1].date = 3
    /\ ret["devops"].size_change = -10
    /\ ret["devops"].drift_magnitude = Rat(100)

\* C8: for a constant sequence of length >= 2 model_time_series returns slope 0,
\* STABLE, r_squared 0 and model_quality WEAK.
C8_ConstantSequence ==
    (/\ call = "model_time_series"
     /\ Len(arg.metric_timeline) >= 2
     /\ \A i, j \in 1..Len(arg.metric_timeline) :
            arg.metric_timeline[i][2] = arg.metric_timeline[j][2])
        => /\ ret.slope = Rat(0)
           /\ ret.trend_direction = "STABLE"
           /\ ret.r_squared = Rat(0)
           /\ ret.model_quality = "WEAK"

\* the number of snapshots that hold key in their field (keyword_evolution, clusters)
Observations(snapshots, field, key) ==
    Cardinality({snapshot \in snapshots : key \in DOMAIN snapshot[field]})

AllKeys(snapshots, field) == UNION {DOMAIN snapshot[field] : snapshot \in snapshots}

\* C9: a keyword or cluster with fewer than 2 observations has no key in the output,
\* nothing is raised, and every one with at least 2 observations has its entry, in
\* analyze_keyword_shifts, detect_cluster_drift and both loops of analyze_real_data.
C9_SkipInsufficient ==
    /\ call = "analyze_keyword_shifts" =>
          /\ DOMAIN ret = {k \in DOMAIN arg.keyword_timeline :
                              Len(arg.keyword_timeline[k]) >= 2}
          /\ \A k \in DOMAIN ret : ~Raised(ret[k].percent_change)
    /\ call = "detect_cluster_drift" =>
          /\ DOMAIN ret = {c \in DOMAIN arg.cluster_timeline :
                              Len(arg.cluster_timeline[c]) >= 2}
          /\ \A c \in DOMAIN ret :
                ~Raised(ret[c].size_percent_change) /\ ~Raised(ret[c].drift_magnitude)
    /\ (call = "analyze_real_data" /\ arg.snapshots # {}) =>
          /\ DOMAIN ret.keyword_shifts =
                {k \in AllKeys(arg.snapshots, "keyword_evolution") :
                    Observations(arg.snapshots, "keyword_evolution", k) >= 2}
          /\ DOMAIN ret.cluster_stats =
                {c \in AllKeys(arg.snapshots, "clusters") :
                    Observations(arg.snapshots, "clusters", c) >= 2}
          /\ \A k \in DOMAIN ret.keyword_shifts : ~Raised(ret.keyword_shifts[k].percent_change)
          /\ \A c \in DOMAIN ret.cluster_stats : ~Raised(ret.cluster_stats[c].drift_magnitude)

C9_Witness ==
    /\ call = "analyze_real_data"
    /\ Observations(arg.snapshots, "keyword_evolution", "rag") = 1
    /\ Observations(arg.snapshots, "keyword_evolution", "llm") = 2
    /\ Observations(arg.snapshots, "clusters", "ai_llm") = 1
    /\ Observations(arg.snapshots, "clusters", "devops") = 2
    /\ DOMAIN ret.keyword_shifts = {"llm"}
    /\ DOMAIN ret.cluster_stats = {"devops"}

\* the snapshot with the earliest (latest = FALSE) or latest timestamp among those
\* that hold keyword
Extreme(snapshots, keyword, latest) ==
    LET having == {snapshot \in snapshots : keyword \in DOMAIN snapshot.keyword_evolution}
    IN  CHOOSE snapshot \in having :
            \A other \in having :
                IF latest THEN other.timestamp <= snapshot.timestamp
                ELSE snapshot.timestamp <= other.timestamp

\* C10: the whole-span start_frequency and end_frequency are those of the keyword's
\* earliest and latest snapshot, whatever lies between; 2, 3, 5, 7, 10, 14, 18, 22
\* gives start 2, end 22, percent_change 1000, RISING.
C10_FirstAndLast ==
    (call = "analyze_real_data" /\ arg.snapshots # {}) =>
        /\ \A k \in DOMAIN ret.keyword_shifts :
              /\ ret.keyword_shifts[k].start_frequency =
                     Rat(DictGet(Extreme(arg.snapshots, k, FALSE).keyword_evolution[k],
                                 "frequency", 0))
              /\ ret.keyword_shifts[k].end_frequency =
                     Rat(DictGet(Extreme(arg.snapshots, k, TRUE).keyword_evolution[k],
                                 "frequency", 0))
        /\ arg.snapshots = ExampleStore =>
              ret.keyword_shifts["llm"] =
                  [start_frequency |-> Rat(2), end_frequency |-> Rat(22),
                   percent_change |-> Rat(1000), trend_direction |-> "RISING"]

C10_Witness ==
    /\ call = "analyze_real_data"
    /\ arg.snapshots = ExampleStore
    /\ ret.keyword_shifts["llm"].percent_change = Rat(1000)
    /\ ret.keyword_shifts["kubernetes"].trend_direction = "FALLING"

\* the frequency of the observation of a timeline of (date, frequency) tuples with
\* the n-th latest date
NthLatestFrequency(timeline, n) ==
    LET i == CHOOSE i \in 1..Len(timeline) :
                 Cardinality({j \in 1..Len(timeline) :
                                 timeline[j][1] > timeline[i][1]}) = n - 1
    IN  timeline[i][2]

\* the trailing window of at most 3 frequencies in date order
TrailingWindow(timeline) ==
    LET n == IF Len(timeline) < 3 THEN Len(timeline) ELSE 3
    IN  [i \in 1..n |-> NthLatestFrequency(timeline, n + 1 - i)]

Rises(window) == Cardinality({i \in 2..Len(window) : window[i] > window[i - 1]})

Falls(window) == Cardinality({i \in 2..Len(window) : window[i] < window[i - 1]})

MajorityDirection(window) ==
    IF Rises(window) > Falls(window) THEN "RISING"
    ELSE IF Falls(window) > Rises(window) THEN "FALLING"
    ELSE "STABLE"

UnanimousDirection(window) ==
    IF Len(window) >= 2 /\ Rises(window) = Len(window) - 1 THEN "RISING"
    ELSE IF Len(window) >= 2 /\ Falls(window) = Len(window) - 1 THEN "FALLING"
    ELSE "STABLE"

\* C12 (as claimed): the short-window trend is the majority direction of the
\* consecutive steps, STABLE on a tie or on fewer than 2 points.
C12_MajorityDirection ==
    /\ call = "_detect_simple_trend" => ret = MajorityDirection(arg.recent_values)
    /\ call = "analyze_keyword_shifts" =>
          \A k \in DOMAIN ret :
              ret[k].trend = MajorityDirection(TrailingWindow(arg.keyword_timeline[k]))

\* C12 (amended): the short-window trend is RISING when every consecutive step
\* rises, FALLING when every step falls, and STABLE otherwise (a mixed window, any
\* flat step, or fewer than 2 points).
C12_UnanimousDirection ==
    /\ call = "_detect_simple_trend" => ret = UnanimousDirection(arg.recent_values)
    /\ call = "analyze_keyword_shifts" =>
          \A k \in DOMAIN ret :
              ret[k].trend = UnanimousDirection(TrailingWindow(arg.keyword_timeline[k]))

C12_Witness ==
    /\ call = "analyze_keyword_shifts"
    /\ Len(arg.keyword_timeline["llm"]) = 3
    /\ TrailingWindow(arg.keyword_timeline["llm"]) = <<1, 2, 2>>
    /\ arg.keyword_timeline["llm"][1][1] = 3
    /\ ret["llm"].trend = "STABLE"

NumericFields ==
    {"slope", "intercept", "r_squared", "trend_strength", "next_prediction", "rmse"}

\* C15: model_time_series on fewer than 2 points returns a result with an 'error'
\* marker and no numeric field; in _build_time_series_models such an entry is kept
\* under its metric name and every other metric still gets its model.
C15_ErrorMarker ==
    /\ (call = "model_time_series" /\ Len(arg.metric_timeline) < 2) =>
          "error" \in DOMAIN ret /\ DOMAIN ret \cap NumericFields = {}
    /\ call = "_build_time_series_models" =>
          /\ DOMAIN ret = {"keyword_llm", "keyword_rag",
                           "cluster_size_devops", "cluster_size_ai_llm"}
          /\ \A k \in Keywords :
                LET model == ret[MetricName("keyword_", k)]
                IN  IF Len(arg.snapshots_data.keywords[k]) < 2
                    THEN "error" \in DOMAIN model /\ DOMAIN model \cap NumericFields = {}
                    ELSE model = ModelTimeSeries(arg.snapshots_data.keywords[k])
                             /\ NumericFields \subseteq DOMAIN model
          /\ \A c \in ClusterIds :
                LET model == ret[MetricName("cluster_size_", c)]
                IN  IF Len(arg.snapshots_data.clusters[c]) < 2
                    THEN "error" \in DOMAIN model /\ DOMAIN model \cap NumericFields = {}
                    ELSE "error" \notin DOMAIN model
                             /\ NumericFields \subseteq DOMAIN model

C15_Witness ==
    /\ call = "_build_time_series_models"
    /\ Len(arg.snapshots_data.keywords["llm"]) = 1
    /\ Len(arg.snapshots_data.keywords["rag"]) = 2
    /\ Len(arg.snapshots_data.clusters["devops"]) = 0
    /\ "error" \in DOMAIN ret["keyword_llm"]
    /\ "error" \in DOMAIN ret["cluster_size_devops"]
    /\ ret["keyword_rag"].trend_direction = "RISING"
    /\ "slope" \in DOMAIN ret["cluster_size_ai_llm"]

\* the value of a timeline of (date, value) tuples at position i (from 0) of the
\* date order
ValueAt(timeline, i) ==
    LET k == CHOOSE k \in 1..Len(timeline) :
                 Cardinality({j \in 1..Len(timeline) : timeline[j][1] < timeline[k][1]}) = i
    IN  timeline[k][2]

\* the timeline with the position in date order (from 0) in place of each date
Reindexed(timeline) == [i \in 1..Len(timeline) |-> <<i - 1, ValueAt(timeline, i - 1)>>]

WithoutTimeline(model) == [f \in DOMAIN model \ {"timeline"} |-> model[f]]

\* C17: model_time_series regresses on the position index after sorting by time:
\* values a + b * i give slope b, intercept a, next_prediction a + b * n, and
\* r_squared 1 when b # 0; the result, apart from the timeline it echoes, depends
\* on the values in time order only, not on the timestamps; 1, 2, 3, 4, 5 gives
\* slope 1, r_squared 1, RISING, STRONG, next_prediction 6.
C17_RegressionOnIndex ==
    (call = "model_time_series" /\ Len(arg.metric_timeline) >= 2) =>
        LET n == Len(arg.metric_timeline)
            a == ValueAt(arg.metric_timeline, 0)
            b == ValueAt(arg.metric_timeline, 1) - a
        IN  /\ (\A i \in 0..(n - 1) : ValueAt(arg.metric_timeline, i) = a + b * i) =>
                  /\ ret.slope = Rat(b)
                  /\ ret.intercept = Rat(a)
                  /\ ret.next_prediction = Rat(a + b * n)
                  /\ b # 0 => ret.r_squared = Rat(1)
            /\ WithoutTimeline(ret) = WithoutTimeline(ModelTimeSeries(Reindexed(arg.metric_timeline)))
            /\ ret.values = [i \in 1..n |-> ValueAt(arg.metric_timeline, i - 1)]
            /\ arg.metric_timeline = [i \in 1..5 |-> <<i, i>>] =>
                  /\ ret.slope = Rat(1)
                  /\ ret.r_squared = Rat(1)
                  /\ ret.trend_direction = "RISING"
                  /\ ret.model_quality = "STRONG"
                  /\ ret.next_prediction = Rat(6)

C17_Witness ==
    /\ call = "model_time_series"
    /\ arg.metric_timeline = <<<<4, 9>>, <<1, 3>>, <<2, 6>>>>
    /\ ret.slope = Rat(3)
    /\ ret.intercept = Rat(3)
    /\ ret.next_prediction = Rat(12)
    /\ ret.r_squared = Rat(1)

\* the mean of the values of a timeline of (date, value) tuples
MeanValue(timeline) ==
    RDiv(RSum([i \in 1..Len(timeline) |-> Rat(timeline[i][2])]), Rat(Len(timeline)))

\* min(1, |slope| / max(1, mean))
StrengthFormula(slope, mean) ==
    LET denominator == IF RLt(Rat(1), mean) THEN mean ELSE Rat(1)
        ratio == RDiv(RAbs(slope), denominator)
    IN  IF RLt(Rat(1), ratio) THEN Rat(1) ELSE ratio

\* C18: trend_strength equals min(1, |slope| / max(1, mean(values))) and lies in
\* [0, 1], also when the mean of the values is zero, below 1 or negative and when
\* the slope is large.
C18_TrendStrength ==
    (call = "model_time_series" /\ Len(arg.metric_timeline) >= 2) =>
        /\ ret.trend_strength = StrengthFormula(ret.slope, MeanValue(arg.metric_timeline))
        /\ RLe(Rat(0), ret.trend_strength)
        /\ RLe(ret.trend_strength, Rat(1))

C18_Witness ==
    /\ call = "model_time_series"
    /\ MeanValue(arg.metric_timeline) = Rat(-2)
    /\ ret.slope = Rat(-2)
    /\ ret.trend_strength = Rat(1)

(***************************************************************************)
(* Properties of the analysis runs over the snapshot store (Spec).         *)
(***************************************************************************)
\* C11: an analysis run over a store of fewer than 2 snapshots stores no analysis
\* result (it reports insufficient data instead of an empty report).
C11_NoResultBelowTwoSnapshots ==
    [][Cardinality(temporal_snapshots_real) < 2
           => temporal_analysis_real' = temporal_analysis_real]_vars

(***************************************************************************)
(* Properties of the context and the reports (SpecReport).                 *)
(***************************************************************************)
\* the percent_change field of the keyword of a context entry in the input mapping
PercentChangeOf(keyword_shifts, entry) ==
    LET i == CHOOSE i \in 1..Len(keyword_shifts) : Upper(keyword_shifts[i][1]) = entry.keyword
    IN  keyword_shifts[i][2].percent_change

PositionOf(keyword_shifts, entry) ==
    CHOOSE i \in 1..Len(keyword_shifts) : Upper(keyword_shifts[i][1]) = entry.keyword

Count(keyword_shifts, direction) ==
    Cardinality({i \in 1..Len(keyword_shifts) :
                    keyword_shifts[i][2].trend_direction = direction})

\* list holds only keywords of direction, ordered by the percent_change field
\* (descending or ascending), equal ones in input order, and is the top-n cut
RankedByPercentChange(keyword_shifts, list, direction, descending, n) ==
    /\ \A i \in 1..Len(list) : list[i].direction = direction
    /\ Len(list) = IF Count(keyword_shifts, direction) < n
                   THEN Count(keyword_shifts, direction) ELSE n
    /\ \A i, j \in 1..Len(list) :
          i < j =>
              LET a == PercentChangeOf(keyword_shifts, list[i])
                  b == PercentChangeOf(keyword_shifts, list[j])
              IN  /\ IF descending THEN RLe(b, a) ELSE RLe(a, b)
                  /\ a = b => PositionOf(keyword_shifts, list[i])
                                  < PositionOf(keyword_shifts, list[j])
    /\ \A k \in 1..Len(keyword_shifts) :
          (/\ keyword_shifts[k][2].trend_direction = direction
           /\ \A i \in 1..Len(list) : list[i].keyword # Upper(keyword_shifts[k][1]))
              => \A i \in 1..Len(list) :
                     LET a == PercentChangeOf(keyword_shifts, list[i])
                         b == keyword_shifts[k][2].percent_change
                     IN  IF descending THEN RLe(b, a) ELSE RLe(a, b)

\* C13: rising_keywords holds only RISING keywords in non-increasing order of the
\* percent_change field, falling_keywords only FALLING ones in non-decreasing order,
\* each the 10 most extreme, equal percent_change keeping the input order.
C13_ContextRanking ==
    call = "_format_keyword_shifts" =>
        /\ RankedByPercentChange(arg.keyword_shifts, ret.rising_keywords,
                                 "RISING", TRUE, 10)
        /\ RankedByPercentChange(arg.keyword_shifts, ret.falling_keywords,
                                 "FALLING", FALSE, 10)

\* list is the top-n cut of the items of mapping that are in the class, in the
\* order of their key (descending or ascending): no item of the class that is not
\* listed is more extreme than a listed one
TopRanked(mapping, list, InClass(_), Key(_), descending, n) ==
    LET members == {i \in 1..Len(mapping) : InClass(mapping[i][2])}
        listed == {list[i][1] : i \in 1..Len(list)}
        precedes(a, b) == IF descending THEN RLe(b, a) ELSE RLe(a, b)
    IN  /\ Len(list) = IF Cardinality(members) < n THEN Cardinality(members) ELSE n
        /\ \A i \in 1..Len(list) : \E m \in members : mapping[m] = list[i]
        /\ \A i, j \in 1..Len(list) : i < j => precedes(Key(list[i][2]), Key(list[j][2]))
        /\ \A m \in members :
              mapping[m][1] \notin listed
                  => \A i \in 1..Len(list) : precedes(Key(list[i][2]), Key(mapping[m][2]))

StepRising(data) == data.trend = "RISING"

StepFalling(data) == data.trend = "FALLING"

SpanRising(data) == data.trend_direction = "RISING"

SpanFalling(data) == data.trend_direction = "FALLING"

AnyCluster(data) == TRUE

PercentChangeKey(data) == data.percent_change

DriftMagnitudeKey(data) == data.drift_magnitude

\* C14: the reports list the at most 5 RISING keywords with the largest
\* percent_change in non-increasing order, the at most 5 FALLING keywords with the
\* most negative percent_change first, and (handler report) the at most 3 clusters
\* with the largest drift_magnitude in non-increasing order, in generate_trend_report
\* and in the display of analyze_real_data.
C14_ReportRanking ==
    /\ call = "generate_trend_report" =>
          /\ TopRanked(arg.keyword_shifts, ret.rising_keywords,
                       StepRising, PercentChangeKey, TRUE, 5)
          /\ TopRanked(arg.keyword_shifts, ret.falling_keywords,
                       StepFalling, PercentChangeKey, FALSE, 5)
          /\ TopRanked(arg.cluster_drifts, ret.high_drift,
                       AnyCluster, DriftMagnitudeKey, TRUE, 3)
    /\ call = "display_top_shifts" =>
          /\ TopRanked(arg.keyword_shifts, ret.rising_keywords,
                       SpanRising, PercentChangeKey, TRUE, 5)
          /\ TopRanked(arg.keyword_shifts, ret.falling_keywords,
                       SpanFalling, PercentChangeKey, FALSE, 5)

\* the positions of trend_analyses that hold a model: a dict with its numeric
\* fields and no error marker
ValidModels(trend_analyses) ==
    {i \in 1..Len(trend_analyses) :
        /\ trend_analyses[i][2] # None
        /\ "error" \notin DOMAIN trend_analyses[i][2]
        /\ {"slope", "r_squared", "trend_direction"} \subseteq DOMAIN trend_analyses[i][2]}

NthOf(positions, n) ==
    CHOOSE i \in positions : Cardinality({j \in positions : j < i}) = n - 1

\* labels holds one label per valid model of trend_analyses, under its metric
\* name, and nothing else
LabelsExactlyValid(trend_analyses, labels) ==
    /\ Len(labels) = Cardinality(ValidModels(trend_analyses))
    /\ \A n \in 1..Len(labels) :
          /\ labels[n][1] = trend_analyses[NthOf(ValidModels(trend_analyses), n)][1]
          /\ labels[n][2].metric = labels[n][1]

\* C16: label_trends yields exactly one label, under the same metric name, for every
\* valid model and none for an error-marked or non-dict entry, and the report has a
\* line for exactly the labelled metrics.
C16_LabelsExactlyValidModels ==
    /\ call = "label_trends" => LabelsExactlyValid(arg.trend_analyses, ret)
    /\ call = "label_and_report" =>
          /\ LabelsExactlyValid(arg.trend_analyses, ret.trend_labels)
          /\ Len(ret.report.trend_summary) = Cardinality(ValidModels(arg.trend_analyses))
          /\ \A n \in 1..Len(ret.report.trend_summary) :
                ret.report.trend_summary[n].metric =
                    arg.trend_analyses[NthOf(ValidModels(arg.trend_analyses), n)][1]

C16_Witness ==
    /\ call = "label_and_report"
    /\ Len(arg.trend_analyses) = 3
    /\ "error" \in DOMAIN arg.trend_analyses[1][2]
    /\ ValidModels(arg.trend_analyses) = {2}
    /\ arg.trend_analyses[3][2] = None
    /\ Len(ret.trend_labels) = 1
    /\ ret.report.trend_summary[1].metric = "keyword_rag"

\* the direction x strength table of the label text
LabelTextTable(direction, strength) ==
    CASE direction = "RISING" /\ RLt(Norm(7, 10), strength) -> "STRONG RISING TREND"
      [] direction = "RISING" /\ RLe(strength, Norm(7, 10)) -> "MODERATE RISING TREND"
      [] direction = "FALLING" /\ RLt(Norm(7, 10), strength) -> "STRONG FALLING TREND"
      [] direction = "FALLING" /\ RLe(strength, Norm(7, 10)) -> "MODERATE FALLING TREND"
      [] direction \notin {"RISING", "FALLING"} -> "STABLE TREND"

IconOf(direction) ==
    CASE direction = "RISING" -> "chart increasing"
      [] direction = "FALLING" -> "chart decreasing"
      [] OTHER -> "arrow"

\* C19: the label text is STRONG <DIR> TREND for RISING or FALLING with strength
\* above 0.7, MODERATE <DIR> TREND at 0.7 and below, STABLE TREND for STABLE at any
\* strength; the icon is a function of the direction alone.
C19_LabelText ==
    /\ call = "_generate_trend_label" =>
          /\ ret.label_text = LabelTextTable(arg.direction, arg.strength)
          /\ ret.emoji = IconOf(arg.direction)
    /\ call = "label_trends" =>
          \A n \in 1..Len(ret) :
              /\ ret[n][2].label_text = LabelTextTable(ret[n][2].direction, ret[n][2].strength)
              /\ ret[n][2].emoji = IconOf(ret[n][2].direction)

C19_Witness ==
    /\ call = "_generate_trend_label"
    /\ arg.direction = "RISING"
    /\ arg.strength = Norm(7, 10)
    /\ ret.label_text = "MODERATE RISING TREND"
    /\ ret.emoji = "chart increasing"

\* the quality bucket of an r_squared
QualityBucket(r_squared) ==
    CASE RLt(Norm(7, 10), r_squared) -> "STRONG"
      [] RLt(Norm(4, 10), r_squared) /\ RLe(r_squared, Norm(7, 10)) -> "MODERATE"
      [] RLe(r_squared, Norm(4, 10)) -> "WEAK"

\* label carries the quality, direction, strength and next_prediction of model
\* unchanged and min(1, r_squared) as its confidence
LabelCarries(label, model) ==
    /\ label.model_quality = model.model_quality
    /\ label.direction = model.trend_direction
    /\ label.strength = model.trend_strength
    /\ label.forecast = model.next_prediction
    /\ label.confidence = IF RLt(Rat(1), model.r_squared) THEN Rat(1) ELSE model.r_squared

\* C20: model_quality is STRONG exactly when r_squared > 0.7, MODERATE exactly when
\* 0.4 < r_squared <= 0.7 and WEAK when r_squared <= 0.4; the label of the metric
\* carries the model's quality, direction, strength and next_prediction unchanged
\* and a confidence of min(1, r_squared).
C20_ModelQuality ==
    /\ (call = "model_and_label" /\ "error" \notin DOMAIN ret.model) =>
          /\ ret.model.model_quality = QualityBucket(ret.model.r_squared)
          /\ Len(ret.trend_labels) = 1
          /\ LabelCarries(ret.trend_labels[1][2], ret.model)
    /\ call = "label_trends" =>
          \A n \in 1..Len(ret) :
              LabelCarries(ret[n][2],
                           arg.trend_analyses[NthOf(ValidModels(arg.trend_analyses), n)][2])

C20_Witness ==
    /\ call = "model_and_label"
    /\ "error" \notin DOMAIN ret.model
    /\ ret.model.r_squared = Norm(7, 10)
    /\ ret.model.model_quality = "MODERATE"
    /\ ret.trend_labels[1][2].model_quality = "MODERATE"
    /\ ret.trend_labels[1][2].confidence = Norm(7, 10)

(***************************************************************************)
(* Properties of the order of the observations (SpecHandler).              *)
(***************************************************************************)
\* the entries of seq rearranged by the permutation p of its positions
Permute(seq, p) == [i \in 1..Len(seq) |-> seq[p[i]]]

\* the mappings that differ from mapping by a rearrangement of one timeline
Rearranged(mapping) ==
    UNION {{[mapping EXCEPT ![k] = Permute(mapping[k], p)] :
                p \in Permutations(1..Len(mapping[k]))} : k \in DOMAIN mapping}

\* the timestamps of every timeline are strictly ascending
Ascending(timelines) ==
    \A k \in DOMAIN timelines :
        \A i, j \in 1..Len(timelines[k]) :
            i < j => timelines[k][i].timestamp < timelines[k][j].timestamp

\* C23: analysis works on observations in ascending timestamp order: with
\* distinct timestamps the results of analyze_keyword_shifts, detect_cluster_drift
\* and model_time_series are the same for every permutation of the entries of a
\* timeline, and analyze_real_data builds each keyword and cluster timeline in
\* ascending order of the snapshot timestamps
C23_OrderIndependent ==
    /\ call = "analyze_keyword_shifts" =>
          \A other \in Rearranged(arg.keyword_timeline) : AnalyzeKeywordShifts(other) = ret
    /\ call = "detect_cluster_drift" =>
          \A other \in Rearranged(arg.cluster_timeline) : DetectClusterDrift(other) = ret
    /\ call = "model_time_series" =>
          \A p \in Permutations(1..Len(arg.metric_timeline)) :
              ModelTimeSeries(Permute(arg.metric_timeline, p)) = ret
    /\ (call = "analyze_real_data" /\ ret # None) =>
          /\ Ascending(LoadTemporalData(arg.snapshots).keyword_timeline)
          /\ Ascending(LoadTemporalData(arg.snapshots).cluster_timeline)

C23_Witness ==
    /\ call = "analyze_keyword_shifts"
    /\ arg.keyword_timeline["llm"] = <<<<3, 2>>, <<1, 0>>, <<2, 1>>>>
    /\ ret["llm"].history = <<0, 1, 2>>
    /\ ret["llm"].trend = "RISING"

SignAgrees(shift) ==
    /\ shift.trend = "RISING" => RLt(Rat(0), shift.percent_change)
    /\ shift.trend = "FALLING" => RLt(shift.percent_change, Rat(0))

\* C27: in step-mode keyword analysis with non-negative frequencies every keyword
\* labelled RISING has percent_change > 0 and every keyword labelled FALLING has
\* percent_change < 0, so the report, which prints a fixed '+' before the change
\* of a rising keyword, lists only positive changes as rising and only negative
\* ones as falling
C27_TrendSignAgrees ==
    /\ call = "analyze_keyword_shifts" =>
          \A k \in DOMAIN ret : ~Raised(ret[k].percent_change) /\ SignAgrees(ret[k])
    /\ call = "generate_trend_report" =>
          /\ \A i \in 1..Len(ret.rising_keywords) :
                 RLt(Rat(0), ret.rising_keywords[i][2].percent_change)
          /\ \A i \in 1..Len(ret.falling_keywords) :
                 RLt(ret.falling_keywords[i][2].percent_change, Rat(0))

C27_Witness ==
    /\ call = "analyze_keyword_shifts"
    /\ "llm" \in DOMAIN ret
    /\ ret["llm"].previous_frequency = 0
    /\ ret["llm"].trend = "RISING"
    /\ ret["llm"].percent_change = Rat(100)

\* text is x as a signed one-decimal percentage: '+' for x >= 0 and '-' for
\* x < 0, digits, a point, one digit, '%'; the number it shows is x to one decimal
SignedOneDecimal(text, x) ==
    LET n == Len(text)
        digit(c) == \E d \in 1..10 : DigitChars[d] = c
    IN  /\ n >= 5
        /\ text[1] = (IF RLt(x, Rat(0)) THEN "-" ELSE "+")
        /\ \A i \in 2..(n - 3) : digit(text[i])
        /\ text[n - 2] = "."
        /\ digit(text[n - 1])
        /\ text[n] = "%"
        /\ RLe(RAbs(RSub(ParseFloat(SubSeq(text, 1, n - 1)), x)), Norm(1, 20))

\* C25: the context renders every percent change as a signed one-decimal string
\* ending in '%', '+' for values >= 0 and '-' for negative ones, and the email
\* pipeline's parse of that string gives back the same signed value to one
\* decimal for rising and for falling keywords
C25_SignedChangeRoundTrip ==
    /\ call = "_format_keyword_shifts" =>
          \A list \in {ret.rising_keywords, ret.falling_keywords, ret.stable_keywords} :
              \A i \in 1..Len(list) :
                  SignedOneDecimal(list[i].change, PercentChangeOf(arg.keyword_shifts, list[i]))
    /\ call = "adapt_keyword_shifts" =>
          \A list \in {ret.keyword_shifts.rising_keywords, ret.keyword_shifts.falling_keywords} :
              \A i \in 1..Len(list) :
                  LET x == PercentChangeOf(arg.keyword_shifts, list[i])
                      parsed == ret.adapted[Lower(list[i].keyword)].percent_change
                  IN  /\ RLe(RAbs(RSub(parsed, x)), Norm(1, 20))
                      /\ RLt(x, Rat(0)) <=> RLt(parsed, Rat(0))
                      /\ parsed = ParseFloat(RStrip(list[i].change, {"%"}))

C25_Witness ==
    /\ call = "adapt_keyword_shifts"
    /\ Len(ret.keyword_shifts.falling_keywords) = 1
    /\ ret.keyword_shifts.falling_keywords[1].keyword = "LLM"
    /\ ret.keyword_shifts.falling_keywords[1].change = <<"-", "8", "3", ".", "3", "%">>
    /\ {"llm", "rag"} \subseteq DOMAIN ret.adapted
    /\ ret.adapted["llm"].percent_change = Norm(-833, 10)
    /\ ret.adapted["llm"].direction = "FALLING"
    /\ ret.adapted["rag"].percent_change = Rat(1000)

(***************************************************************************)
(* Properties of the stores (Spec).                                        *)
(***************************************************************************)
\* the records of before are the first records of after, unchanged, and at most
\* one record was added
AppendedOnly(before, after) ==
    /\ Len(before) <= Len(after)
    /\ Len(after) <= Len(before) + 1
    /\ \A i \in 1..Len(before) : after[i] = before[i]

\* C21: analysis results are append-only: a run that stores a result adds one new
\* record to its results store, and every record stored by an earlier run is
\* still present and unchanged after any later step
C21_ResultsAppendOnly ==
    [][/\ AppendedOnly(temporal_analysis_real, temporal_analysis_real')
       /\ AppendedOnly(temporal_analysis, temporal_analysis')
       /\ clock' # clock =>
              Len(temporal_analysis_real') + Len(temporal_analysis')
                  = Len(temporal_analysis_real) + Len(temporal_analysis) + 1]_vars

C21_Witness ==
    /\ Len(temporal_analysis_real) = 2
    /\ temporal_analysis_real[1].timestamp < temporal_analysis_real[2].timestamp
    /\ temporal_analysis_real[1].keyword_shifts # temporal_analysis_real[2].keyword_shifts
    /\ Len(temporal_analysis) = 2

\* C22: the snapshot timeline is append-only: no operation modifies or removes a
\* stored snapshot, so the set of stored snapshots only grows
C22_SnapshotsOnlyGrow ==
    [][temporal_snapshots_real \subseteq temporal_snapshots_real']_vars

\* C30: after any sequence of analysis runs, get_latest_trends builds its context
\* from the stored result with the greatest timestamp, which is the result of the
\* most recently completed run and never an older one; with no stored result it
\* raises ValueError and returns no context.
C30_LatestResult ==
    [][(call' = "get_latest_trends" /\ (call # call' \/ ret' # ret)) =>
          IF temporal_analysis_real = <<>>
          THEN /\ "raised" \in DOMAIN ret'
               /\ ret'.raised = "ValueError"
               /\ "keyword_shifts" \notin DOMAIN ret'
          ELSE LET latest == temporal_analysis_real[Len(temporal_analysis_real)]
               IN  /\ \A i \in 1..(Len(temporal_analysis_real) - 1) :
                          temporal_analysis_real[i].timestamp < latest.timestamp
                   /\ "raised" \notin DOMAIN ret'
                   /\ ret'.week_ending = latest.timestamp
                   /\ ret'.summary_stats.total_keywords = latest.keywords_analyzed
                   /\ ret'.keyword_shifts =
                          FormatKeywordShifts(Items(latest.keyword_shifts, KeywordNames))
                   /\ DOMAIN ret'.cluster_insights = DOMAIN latest.cluster_stats
                   /\ \A c \in DOMAIN latest.cluster_stats :
                          ret'.cluster_insights[c].drift_severity =
                              latest.cluster_stats[c].drift_severity]_vars

\* two results with different keyword shifts are stored and the context shows
\* the rising keyword of the second
C30_Witness ==
    /\ call = "get_latest_trends"
    /\ Len(temporal_analysis_real) = 2
    /\ temporal_analysis_real[1].keyword_shifts # temporal_analysis_real[2].keyword_shifts
    /\ "week_ending" \in DOMAIN ret
    /\ ret.week_ending = temporal_analysis_real[2].timestamp
    /\ Len(ret.keyword_shifts.rising_keywords) = 1
    /\ ret.keyword_shifts.rising_keywords[1].keyword = "LLM"
    /\ temporal_analysis_real[1].keyword_shifts = EmptyDict

(***************************************************************************)
(* Properties of the newsletter pipeline (SpecEmail).                      *)
(***************************************************************************)
\* the emails handed to the sender and the delivery records inserted by a step
SentBy(before, after) == SubSeq(after, Len(before) + 1, Len(after))

C29_OneRecordPerAttempt ==
    [][(clock' # clock /\ ret'.master_newsletter # None /\ ret'.phase = "full_pipeline") =>
          LET users == Users(arg.users, IF call' = "run" THEN arg.test_recipients ELSE <<>>)
              sent == SentBy(outbox, outbox')
              added == SentBy(email_logs, email_logs')
          IN  /\ Len(sent) = Len(users)
              /\ \A i \in 1..Len(users) : sent[i].to = users[i].email
              /\ Len(added) = Len(sent)
              /\ \A i \in 1..Len(sent) :
                     /\ added[i].recipient = sent[i].to
                     /\ added[i].success = sent[i].success]_vars

=============================================================================
